---------------------------- MODULE Spec2Model ----------------------------
(***************************************************************************)
(* Model of the ignore-pattern core of `digest`: the match engine          *)
(* should_ignore (src/src/lib.rs), the ignore-file loaders                 *)
(* check_for_gitignore / check_for_digestignore, the traversal             *)
(* collect_relevant_files, and, of src/src/main.rs, the construction of    *)
(* the pattern set and the binary's own should_ignore.                     *)
(*                                                                         *)
(* A Rust string is modelled as a sequence of one-character strings, so    *)
(* that prefix, suffix, substring, split and trim are computed the way     *)
(* the standard library computes them.                                     *)
(***************************************************************************)
EXTENDS Integers, Sequences, FiniteSets

VARIABLES
    pc,             \* position of the modelled caller
    path,           \* the path handed to should_ignore
    patterns,       \* ignore_patterns: the HashSet<String> built so far
    order,          \* the iteration order the HashSet yields for the call
    verdict,        \* the value should_ignore returned
    fs,             \* the .digestignore and .gitignore of the project directory
    digest_result,  \* the Result returned by check_for_digestignore
    git_result,     \* the Result returned by check_for_gitignore
    cli,            \* the parsed command line (struct Cli)
    env,            \* what main finds out about the project before step 2
    using_digestignore,  \* main's local of that name
    using_gitignore,     \* main's local of that name
    log,            \* the info! and debug! lines main wrote in step 2
    main_verdict,   \* the value main.rs's own should_ignore returned
    project_path,   \* collect_relevant_files: the root the walk starts from
    entries,        \* the entries the walker has still to yield
    entry,          \* the entry of the current loop iteration
    files,          \* the Vec<FileInfo> built so far, as the stored paths
    max_files       \* the max_files argument

lib_vars == <<pc, path, patterns, order, verdict, fs, digest_result, git_result>>
main_vars == <<cli, env, using_digestignore, using_gitignore, log>>
bin_vars == <<main_verdict>>
walk_vars == <<project_path, entries, entry, files, max_files>>
vars == <<lib_vars, main_vars, bin_vars, walk_vars>>

---------------------------------------------------------------------------
(* Bounds of the model *)

\* longest path, in segments, built from CoreSegments
MaxDepth == 2
\* largest pattern set drawn from SetPool
MaxPatterns == 2
\* longest ignore-file content, in characters, built from ContentAlphabet
MaxContentLen == 3
\* most --ignore-pattern arguments on the command line
MaxCliPatterns == 1

---------------------------------------------------------------------------
(* std::str operations, as the standard library defines them *)

\* str::starts_with
StartsWith(s, p) == Len(p) <= Len(s) /\ SubSeq(s, 1, Len(p)) = p

\* str::ends_with
EndsWith(s, p) == Len(p) <= Len(s) /\ SubSeq(s, Len(s) - Len(p) + 1, Len(s)) = p

\* str::contains
Contains(s, p) ==
    Len(p) <= Len(s) /\ \E i \in 0..(Len(s) - Len(p)) : SubSeq(s, i + 1, i + Len(p)) = p

\* char::is_whitespace, on the characters the model uses
IsWhitespace(c) == c \in {" ", "\t", "\r", "\n"}

\* str::trim: drops leading and trailing whitespace
RECURSIVE TrimStart(_)
TrimStart(s) ==
    IF s # <<>> /\ IsWhitespace(Head(s)) THEN TrimStart(Tail(s)) ELSE s

RECURSIVE TrimEnd(_)
TrimEnd(s) ==
    IF s # <<>> /\ IsWhitespace(s[Len(s)]) THEN TrimEnd(SubSeq(s, 1, Len(s) - 1)) ELSE s

Trim(s) == TrimEnd(TrimStart(s))

\* str::split on a non-empty separator string: the pieces between the
\* non-overlapping occurrences of sep, found left to right; never empty
RECURSIVE SplitFrom(_, _, _)
SplitFrom(s, sep, cur) ==
    IF s = <<>> THEN <<cur>>
    ELSE IF StartsWith(s, sep)
         THEN <<cur>> \o SplitFrom(SubSeq(s, Len(sep) + 1, Len(s)), sep, <<>>)
         ELSE SplitFrom(Tail(s), sep, Append(cur, Head(s)))

Split(s, sep) == SplitFrom(s, sep, <<>>)

\* str::replace of one character by another
RECURSIVE Replace(_, _, _)
Replace(s, from, to) ==
    IF s = <<>> THEN <<>>
    ELSE <<IF Head(s) = from THEN to ELSE Head(s)>> \o Replace(Tail(s), from, to)

\* str::lines: the pieces ended by \n, the \n dropped and a \r before it
\* dropped too; the text after the last \n is a line unless it is empty
RECURSIVE LinesFrom(_, _)
LinesFrom(s, cur) ==
    IF s = <<>> THEN (IF cur = <<>> THEN <<>> ELSE <<cur>>)
    ELSE IF Head(s) = "\n"
         THEN <<IF cur # <<>> /\ cur[Len(cur)] = "\r"
                THEN SubSeq(cur, 1, Len(cur) - 1) ELSE cur>> \o LinesFrom(Tail(s), <<>>)
         ELSE LinesFrom(Tail(s), Append(cur, Head(s)))

Lines(s) == LinesFrom(s, <<>>)

\* the last element of a non-empty sequence (Iterator::last)
Last(seq) == seq[Len(seq)]

\* concatenation of the strings of a sequence, sep between neighbours
RECURSIVE Join(_, _)
Join(segs, sep) ==
    IF segs = <<>> THEN <<>>
    ELSE IF Len(segs) = 1 THEN segs[1]
    ELSE segs[1] \o sep \o Join(Tail(segs), sep)

---------------------------------------------------------------------------
(* String literals of src/src/lib.rs *)

SLASH == <<"/">>
STAR == <<"*">>
DOTGIT == <<".", "g", "i", "t">>
SLASH_DOTGIT_SLASH == <<"/", ".", "g", "i", "t", "/">>
TEST == <<"t", "e", "s", "t">>
TEST_SLASH == <<"t", "e", "s", "t", "/">>
SLASH_TEST_SLASH == <<"/", "t", "e", "s", "t", "/">>
PAT_TEST_DIR == <<"*", "*", "/", "t", "e", "s", "t", "/", "*", "*">>
PAT_TEST_STAR_DIR == <<"*", "*", "/", "t", "e", "s", "t", "*", "/", "*", "*">>
PAT_ANY_MD == <<"*", "*", "/", "*", ".", "m", "d">>
DOT_MD == <<".", "m", "d">>
PAT_NODE_MODULES == <<"n", "o", "d", "e", "_", "m", "o", "d", "u", "l", "e", "s", "/">>
SLASH_NODE_MODULES_SLASH ==
    <<"/", "n", "o", "d", "e", "_", "m", "o", "d", "u", "l", "e", "s", "/">>
PAT_BUILD == <<"b", "u", "i", "l", "d", "/">>
SLASH_BUILD_SLASH == <<"/", "b", "u", "i", "l", "d", "/">>
STARSTAR == <<"*", "*">>
STARSTAR_SLASH == <<"*", "*", "/">>
SLASH_STARSTAR == <<"/", "*", "*">>
SLASH_STARSTAR_SLASH == <<"/", "*", "*", "/">>
PAT_TEST_GLOB == <<"*", ".", "t", "e", "s", "t", ".", "*">>
DOT_TEST_DOT == <<".", "t", "e", "s", "t", ".">>

---------------------------------------------------------------------------
(* should_ignore, src/src/lib.rs *)

\* lines 17-20: the path as a string, backslashes replaced by slashes
normalize_path(p) == Replace(p, "\\", "/")

\* a slip: test/ looked for anywhere, without the / in front
shortcut_test_dir_unbounded(path_str, pattern) ==
    pattern = PAT_TEST_DIR /\ Contains(path_str, TEST_SLASH)

\* lines 25-29: the shortcut for the pattern **/test/**
shortcut_test_dir(path_str, pattern) ==
    /\ pattern = PAT_TEST_DIR
    /\ (Contains(path_str, SLASH_TEST_SLASH) \/ StartsWith(path_str, TEST_SLASH))

\* a slip: the test on the final segment (lines 41-47) dropped
shortcut_test_star_dir_any_segment(path_str, pattern) ==
    /\ pattern = PAT_TEST_STAR_DIR
    /\ LET path_segments == Split(path_str, SLASH)
       IN \E i \in 1..Len(path_segments) :
            path_segments[i] # <<>> /\ StartsWith(path_segments[i], TEST)

\* lines 32-51: the shortcut for the pattern **/test*/**
shortcut_test_star_dir(path_str, pattern) ==
    /\ pattern = PAT_TEST_STAR_DIR
    /\ LET path_segments == Split(path_str, SLASH)
       IN \E i \in 1..Len(path_segments) :
            /\ path_segments[i] # <<>>
            /\ StartsWith(path_segments[i], TEST)
            /\ (i = Len(path_segments) => EndsWith(path_str, SLASH))

\* a slip: the shortcut asks for a directory in front of the file name
shortcut_any_md_below_root(path_str, pattern) ==
    pattern = PAT_ANY_MD /\ Contains(path_str, SLASH) /\ EndsWith(path_str, DOT_MD)

\* lines 54-58: the shortcut for the pattern **/*.md
shortcut_any_md(path_str, pattern) ==
    pattern = PAT_ANY_MD /\ EndsWith(path_str, DOT_MD)

\* lines 61-65: the shortcut for the pattern node_modules/
shortcut_node_modules(path_str, pattern) ==
    /\ pattern = PAT_NODE_MODULES
    /\ (StartsWith(path_str, PAT_NODE_MODULES) \/ Contains(path_str, SLASH_NODE_MODULES_SLASH))

\* lines 67-71: the shortcut for the pattern build/
shortcut_build(path_str, pattern) ==
    /\ pattern = PAT_BUILD
    /\ (StartsWith(path_str, PAT_BUILD) \/ Contains(path_str, SLASH_BUILD_SLASH))

\* lines 73-76: the .git test, made once per pattern inside the loop
is_git_path(path_str) ==
    Contains(path_str, SLASH_DOTGIT_SLASH) \/ path_str = DOTGIT

\* lines 81-84: empty lines and comments are skipped
is_blank_or_comment(pattern) ==
    pattern = <<>> \/ StartsWith(pattern, <<"#">>)

\* a slip: the negation test dropped, a !-pattern read as a literal
is_negated_never(pattern) == FALSE

\* lines 86-89: negated patterns are skipped
is_negated(pattern) == StartsWith(pattern, <<"!">>)

\* lines 92-106: a pattern that starts with **/
match_leading_double_star(path_str, pattern) ==
    /\ StartsWith(pattern, STARSTAR_SLASH)
    /\ LET suffix == SubSeq(pattern, 4, Len(pattern))
           stem == SubSeq(suffix, 1, Len(suffix) - 1)
       IN \/ path_str = suffix
          \/ EndsWith(path_str, SLASH \o suffix)
          \/ /\ EndsWith(suffix, SLASH)
             /\ (EndsWith(path_str, stem) \/ Contains(path_str, stem \o SLASH))

\* a slip: a leading **/ of the prefix read as "at any depth"
match_trailing_double_star_any_depth(path_str, pattern) ==
    /\ EndsWith(pattern, SLASH_STARSTAR)
    /\ LET whole == SubSeq(pattern, 1, Len(pattern) - 3)
           prefix == IF StartsWith(whole, STARSTAR_SLASH)
                     THEN SubSeq(whole, 4, Len(whole)) ELSE whole
       IN \/ StartsWith(path_str, prefix \o SLASH)
          \/ Contains(path_str, SLASH \o prefix \o SLASH)

\* a slip: the prefix matched without the / that closes the directory name
match_trailing_double_star_unbounded(path_str, pattern) ==
    /\ EndsWith(pattern, SLASH_STARSTAR)
    /\ LET prefix == SubSeq(pattern, 1, Len(pattern) - 3)
       IN \/ StartsWith(path_str, prefix)
          \/ Contains(path_str, SLASH \o prefix)

\* lines 109-119: a pattern that ends with /**
match_trailing_double_star(path_str, pattern) ==
    /\ EndsWith(pattern, SLASH_STARSTAR)
    /\ LET prefix == SubSeq(pattern, 1, Len(pattern) - 3)
       IN \/ StartsWith(path_str, prefix \o SLASH)
          \/ Contains(path_str, SLASH \o prefix \o SLASH)

\* a slip: the suffix test dropped, the prefix alone decides
match_middle_double_star_prefix_only(path_str, pattern) ==
    /\ Contains(pattern, SLASH_STARSTAR_SLASH)
    /\ LET segments == Split(pattern, SLASH_STARSTAR_SLASH)
       IN /\ Len(segments) >= 2
          /\ LET prefix == segments[1]
             IN \/ prefix = <<>>
                \/ StartsWith(path_str, prefix)
                \/ Contains(path_str, SLASH \o prefix)

\* lines 122-144: a pattern that contains /**/
match_middle_double_star(path_str, pattern) ==
    /\ Contains(pattern, SLASH_STARSTAR_SLASH)
    /\ LET segments == Split(pattern, SLASH_STARSTAR_SLASH)
       IN /\ Len(segments) >= 2
          /\ LET prefix == segments[1]
                 suffix == segments[2]
                 prefix_matches ==
                     \/ prefix = <<>>
                     \/ StartsWith(path_str, prefix)
                     \/ Contains(path_str, SLASH \o prefix)
                 suffix_matches ==
                     \/ suffix = <<>>
                     \/ EndsWith(path_str, suffix)
                     \/ Contains(path_str, suffix \o SLASH)
             IN prefix_matches /\ suffix_matches

\* a slip: the segment tested against the prefix only
match_wildcard_directory_prefix_only(path_str, dir_name) ==
    /\ StartsWith(dir_name, STARSTAR_SLASH)
    /\ LET wildcard_part == SubSeq(dir_name, 4, Len(dir_name))
       IN /\ Contains(wildcard_part, STAR)
          /\ LET parts == Split(wildcard_part, STAR)
             IN /\ Len(parts) = 2
                /\ LET segs == Split(path_str, SLASH)
                   IN \E i \in 1..Len(segs) :
                        segs[i] # <<>> /\ StartsWith(segs[i], parts[1])

\* lines 151-179: a directory pattern whose name holds a wildcard; only the
\* form **/pre*suf/ can match, every other form matches nothing
match_wildcard_directory(path_str, dir_name) ==
    /\ StartsWith(dir_name, STARSTAR_SLASH)
    /\ LET wildcard_part == SubSeq(dir_name, 4, Len(dir_name))
       IN /\ Contains(wildcard_part, STAR)
          /\ LET parts == Split(wildcard_part, STAR)
             IN /\ Len(parts) = 2
                /\ LET segs == Split(path_str, SLASH)
                   IN \E i \in 1..Len(segs) :
                        /\ segs[i] # <<>>
                        /\ StartsWith(segs[i], parts[1])
                        /\ EndsWith(segs[i], parts[2])

\* a slip: the directory name matched as a bare prefix or substring, without
\* the segment boundaries
match_plain_directory_unbounded(path_str, dir_name) ==
    \/ path_str = dir_name
    \/ StartsWith(path_str, dir_name)
    \/ Contains(path_str, SLASH \o dir_name)

\* lines 181-185: a directory pattern without wildcard
match_plain_directory(path_str, dir_name) ==
    \/ path_str = dir_name
    \/ StartsWith(path_str, dir_name \o SLASH)
    \/ Contains(path_str, SLASH \o dir_name \o SLASH)

\* lines 147-192: a pattern that ends with /; whatever the outcome, no later
\* rule is tried for this pattern
match_directory(path_str, pattern) ==
    LET dir_name == SubSeq(pattern, 1, Len(pattern) - 1)
    IN IF Contains(dir_name, STAR)
       THEN match_wildcard_directory(path_str, dir_name)
       ELSE match_plain_directory(path_str, dir_name)

\* a slip: .test. looked for in the file name only
shortcut_test_glob_file_name(path_str, pattern) ==
    pattern = PAT_TEST_GLOB /\ Contains(Last(Split(path_str, SLASH)), DOT_TEST_DOT)

\* lines 195-199: the shortcut for the pattern *.test.*
shortcut_test_glob(path_str, pattern) ==
    pattern = PAT_TEST_GLOB /\ Contains(path_str, DOT_TEST_DOT)

\* a slip: the boundary test of lines 212-214 dropped, the suffix matched
\* anywhere at the end of the file name
match_star_suffix_unbounded(path_str, suffix) ==
    EndsWith(Last(Split(path_str, SLASH)), suffix)

\* lines 208-217: the pattern *suffix, once the path ends with suffix
match_star_suffix(path_str, suffix) ==
    LET last_segment == Last(Split(path_str, SLASH))
    IN /\ EndsWith(last_segment, suffix)
       /\ \/ suffix = <<>>
          \/ StartsWith(suffix, <<".">>)
          \/ last_segment = suffix

\* lines 219-226: the pattern prefix*, once the path starts with prefix
match_star_prefix(path_str, prefix) ==
    \/ path_str = prefix
    \/ StartsWith(path_str, prefix \o SLASH)
    \/ Contains(path_str, SLASH \o prefix \o SLASH)

\* lines 228-237: the pattern prefix*suffix, both parts non-empty: the file
\* name is searched when suffix starts with a dot, and the whole path is
\* searched whenever that did not return
match_star_embedded(path_str, prefix, suffix) ==
    LET file_name == Last(Split(path_str, SLASH))
    IN \/ StartsWith(suffix, <<".">>) /\ Contains(file_name, prefix \o suffix)
       \/ Contains(path_str, prefix \o suffix)

\* lines 203-239: a pattern with * and without **
match_single_star(path_str, pattern) ==
    LET parts == Split(pattern, STAR)
    IN /\ Len(parts) = 2
       /\ IF StartsWith(pattern, STAR) /\ EndsWith(path_str, parts[2])
          THEN match_star_suffix(path_str, parts[2])
          ELSE IF EndsWith(pattern, STAR) /\ StartsWith(path_str, parts[1])
          THEN match_star_prefix(path_str, parts[1])
          ELSE IF parts[1] # <<>> /\ parts[2] # <<>>
          THEN match_star_embedded(path_str, parts[1], parts[2])
          ELSE FALSE

\* a slip: the pattern searched as a plain substring of the path
match_literal_substring(path_str, pattern) == Contains(path_str, pattern)

\* lines 240-248: a pattern without *, or with **
match_literal(path_str, pattern) ==
    \/ path_str = pattern
    \/ EndsWith(path_str, SLASH \o pattern)
    \/ Contains(path_str, SLASH \o pattern \o SLASH)

\* a slip: each rule closed with `continue`, so that the first rule whose
\* shape the pattern fits decides alone
match_trimmed_first_rule_only(path_str, pattern) ==
    IF is_blank_or_comment(pattern) THEN FALSE
    ELSE IF is_negated(pattern) THEN FALSE
    ELSE IF StartsWith(pattern, STARSTAR_SLASH) THEN match_leading_double_star(path_str, pattern)
    ELSE IF EndsWith(pattern, SLASH_STARSTAR) THEN match_trailing_double_star(path_str, pattern)
    ELSE IF Contains(pattern, SLASH_STARSTAR_SLASH) THEN match_middle_double_star(path_str, pattern)
    ELSE IF EndsWith(pattern, SLASH) THEN match_directory(path_str, pattern)
    ELSE IF shortcut_test_glob(path_str, pattern) THEN TRUE
    ELSE IF Contains(pattern, STAR) /\ ~Contains(pattern, STARSTAR)
         THEN match_single_star(path_str, pattern)
         ELSE match_literal(path_str, pattern)

\* lines 79-248: the rules applied to the trimmed pattern; TRUE when the loop
\* body returns true, FALSE when it goes on to the next pattern
match_trimmed(path_str, pattern) ==
    IF is_blank_or_comment(pattern) THEN FALSE
    ELSE IF is_negated(pattern) THEN FALSE
    ELSE IF match_leading_double_star(path_str, pattern) THEN TRUE
    ELSE IF match_trailing_double_star(path_str, pattern) THEN TRUE
    ELSE IF match_middle_double_star(path_str, pattern) THEN TRUE
    ELSE IF EndsWith(pattern, SLASH) THEN match_directory(path_str, pattern)
    ELSE IF shortcut_test_glob(path_str, pattern) THEN TRUE
    ELSE IF Contains(pattern, STAR) /\ ~Contains(pattern, STARSTAR)
         THEN match_single_star(path_str, pattern)
         ELSE match_literal(path_str, pattern)

\* lines 23-249: one pass of the loop body for one pattern: "return_true" when
\* it returns true, "continue" when the loop goes on to the next pattern
loop_body(path_str, pattern) ==
    IF shortcut_test_dir(path_str, pattern) THEN "return_true"
    ELSE IF shortcut_test_star_dir(path_str, pattern) THEN "return_true"
    ELSE IF shortcut_any_md(path_str, pattern) THEN "return_true"
    ELSE IF shortcut_node_modules(path_str, pattern) THEN "return_true"
    ELSE IF shortcut_build(path_str, pattern) THEN "return_true"
    ELSE IF is_git_path(path_str) THEN "return_true"
    ELSE IF match_trimmed(path_str, Trim(pattern)) THEN "return_true"
    ELSE "continue"

\* a slip: a negated pattern ends the loop with false (the path re-included)
\* where the code goes on to the next pattern
RECURSIVE loop_over_negation_returns(_, _)
loop_over_negation_returns(path_str, seq) ==
    IF seq = <<>> THEN FALSE
    ELSE IF loop_body(path_str, Head(seq)) = "return_true" THEN TRUE
    ELSE IF is_negated(Trim(Head(seq))) THEN FALSE
    ELSE loop_over_negation_returns(path_str, Tail(seq))

\* a slip: the verdict of the last pattern overwrites the earlier ones
RECURSIVE loop_over_last_wins(_, _)
loop_over_last_wins(path_str, seq) ==
    IF seq = <<>> THEN FALSE
    ELSE IF Len(seq) = 1 THEN loop_body(path_str, Head(seq)) = "return_true"
    ELSE loop_over_last_wins(path_str, Tail(seq))

\* lines 23-251: the loop over the patterns in the order the set yields them
RECURSIVE loop_over(_, _)
loop_over(path_str, seq) ==
    IF seq = <<>> THEN FALSE
    ELSE LET r == loop_body(path_str, Head(seq))
         IN IF r = "return_true" THEN TRUE ELSE loop_over(path_str, Tail(seq))

\* lines 15-252: should_ignore(path, ignore_patterns), the set iterated in
\* the order seq
should_ignore(p, seq) == loop_over(normalize_path(p), seq)

---------------------------------------------------------------------------
(* The ignore-file loaders, src/src/lib.rs *)

\* an ignore file of the project directory: absent, present but not readable
\* as text, or present with a content
NoFile == [kind |-> "missing", content |-> <<>>]
Unreadable == [kind |-> "unreadable", content |-> <<>>]
File(content) == [kind |-> "file", content |-> content]

\* Result<HashSet<String>>
Ok(set) == [tag |-> "Ok", value |-> set]
Err(msg) == [tag |-> "Err", value |-> msg]
Pending == [tag |-> "pending", value |-> "not called"]

\* a slip: the line inserted as read, without trim
RECURSIVE insert_lines_untrimmed(_, _)
insert_lines_untrimmed(lines, set) ==
    IF lines = <<>> THEN set
    ELSE LET line == Head(lines)
         IN insert_lines_untrimmed(Tail(lines),
                IF line # <<>> /\ ~StartsWith(line, <<"#">>) THEN set \cup {line} ELSE set)

\* lines 272-278 (and 297-303): the loop over content.lines(), each line
\* trimmed, kept unless empty or a comment, and inserted
RECURSIVE insert_lines(_, _)
insert_lines(lines, set) ==
    IF lines = <<>> THEN set
    ELSE LET line == Trim(Head(lines))
         IN insert_lines(Tail(lines),
                IF line # <<>> /\ ~StartsWith(line, <<"#">>) THEN set \cup {line} ELSE set)

\* lines 254-281: check_for_digestignore
check_for_digestignore(dir) ==
    IF dir.digestignore.kind = "missing" THEN Err("No .digestignore file found")
    ELSE IF dir.digestignore.kind = "unreadable" THEN Err("Failed to read .digestignore")
    ELSE Ok(insert_lines(Lines(dir.digestignore.content), {DOTGIT}))

\* lines 283-306: check_for_gitignore
check_for_gitignore(dir) ==
    IF dir.gitignore.kind = "missing" THEN Err("No .gitignore file found")
    ELSE IF dir.gitignore.kind = "unreadable" THEN Err("Failed to read .gitignore")
    ELSE Ok(insert_lines(Lines(dir.gitignore.content), {DOTGIT}))

\* a slip: the second source replaces the first one instead of adding to it
extend_overwrites(set, more) == more

\* HashSet::extend, as the callers of the loaders use it to union the sources
extend(set, more) == set \cup more

---------------------------------------------------------------------------
(* Iteration orders of a HashSet *)

\* the sequences that enumerate the set S once each
Orders(S) ==
    {f \in [1..Cardinality(S) -> S] : \A i, j \in 1..Cardinality(S) : f[i] = f[j] => i = j}

---------------------------------------------------------------------------
(* The inputs of the modelled calls *)

\* path segments; every path of up to MaxDepth of them is an input:
\* .git  a  !a  ab  build
CoreSegments ==
    {<<".", "g", "i", "t">>,
     <<"a">>,
     <<"!", "a">>,
     <<"a", "b">>,
     <<"b", "u", "i", "l", "d">>}

\* the sequences of 1..n elements of S
RECURSIVE SeqsUpTo(_, _)
SeqsUpTo(S, n) ==
    IF n = 0 THEN {}
    ELSE LET shorter == SeqsUpTo(S, n - 1)
         IN {<<x>> : x \in S} \cup {Append(q, x) : q \in shorter, x \in S}

\* paths of the repository's tests and examples, and paths with a leading
\* slash, a trailing slash, a backslash, or a segment that starts with # or a space:
\* test/file.rs  src/test/file.rs  testing/file.rs  node_modules/x.js  src/node_modules/x.js  node_modulesdir/file.js  dist/app.js  #a/a  ' a/a'  a\b  /a/.git/a  a/  file.jsx  a//b  (empty)
SamplePaths ==
    {<<"t", "e", "s", "t", "/", "f", "i", "l", "e", ".", "r", "s">>,
     <<"s", "r", "c", "/", "t", "e", "s", "t", "/", "f", "i", "l", "e", ".", "r", "s">>,
     <<"t", "e", "s", "t", "i", "n", "g", "/", "f", "i", "l", "e", ".", "r", "s">>,
     <<"n", "o", "d", "e", "_", "m", "o", "d", "u", "l", "e", "s", "/", "x", ".", "j", "s">>,
     <<"s", "r", "c", "/", "n", "o", "d", "e", "_", "m", "o", "d", "u", "l", "e", "s", "/", "x", ".", "j", "s">>,
     <<"n", "o", "d", "e", "_", "m", "o", "d", "u", "l", "e", "s", "d", "i", "r", "/", "f", "i", "l", "e", ".", "j", "s">>,
     <<"d", "i", "s", "t", "/", "a", "p", "p", ".", "j", "s">>,
     <<"#", "a", "/", "a">>,
     <<" ", "a", "/", "a">>,
     <<"a", "\\", "b">>,
     <<"/", "a", "/", ".", "g", "i", "t", "/", "a">>,
     <<"a", "/">>,
     <<"f", "i", "l", "e", ".", "j", "s", "x">>,
     <<"a", "/", "/", "b">>,
     <<>>}

\* patterns that pattern sets of up to MaxPatterns elements are drawn from:
\* .git  !a  a/  *.js  !dist/app.js  build/
SetPool ==
    {<<".", "g", "i", "t">>,
     <<"!", "a">>,
     <<"a", "/">>,
     <<"*", ".", "j", "s">>,
     <<"!", "d", "i", "s", "t", "/", "a", "p", "p", ".", "j", "s">>,
     <<"b", "u", "i", "l", "d", "/">>}

\* further patterns, each tried alone:
\* test/  node_modules/  !a/  #a/  ' a/'  /  a/b/  .git/  ab/  !.git  !*.js
SinglePool ==
    {<<"t", "e", "s", "t", "/">>,
     <<"n", "o", "d", "e", "_", "m", "o", "d", "u", "l", "e", "s", "/">>,
     <<"!", "a", "/">>,
     <<"#", "a", "/">>,
     <<" ", "a", "/">>,
     <<"/">>,
     <<"a", "/", "b", "/">>,
     <<".", "g", "i", "t", "/">>,
     <<"a", "b", "/">>,
     <<"!", ".", "g", "i", "t">>,
     <<"!", "*", ".", "j", "s">>}

\* patterns of each shape of the grammar, each tried alone ('' is the empty
\* pattern):
\* *a  *b  *  */a  *.md  a/**  build/**  !a/**  #a/**  /**  **/*.md  **/*.js
\* a  ab  ''  README.md  node_modules  #a  a*  temp*  !a*  foo*.d  a*b  a*/
\* test*/  *b/  **/a*/  **/test*/  **/*b/  **/a*b/
\* lib/  **/lib/  **/data/  **/a/  src/**/config.json  a/**/a  !a/**/a
\* /**/a  a/**/  *.test.*  **/test*/**  **/test/**  **/node_modules/**
\* **/a/**  **/build/**  a/**/b/**
GrammarPatterns ==
    {<<"*", "a">>,
     <<"*", "b">>,
     <<"*">>,
     <<"*", "/", "a">>,
     <<"*", ".", "m", "d">>,
     <<"a", "/", "*", "*">>,
     <<"b", "u", "i", "l", "d", "/", "*", "*">>,
     <<"!", "a", "/", "*", "*">>,
     <<"#", "a", "/", "*", "*">>,
     <<"/", "*", "*">>,
     <<"*", "*", "/", "*", ".", "m", "d">>,
     <<"*", "*", "/", "*", ".", "j", "s">>,
     <<"a">>,
     <<"a", "b">>,
     <<>>,
     <<"R", "E", "A", "D", "M", "E", ".", "m", "d">>,
     <<"n", "o", "d", "e", "_", "m", "o", "d", "u", "l", "e", "s">>,
     <<"#", "a">>,
     <<"a", "*">>,
     <<"t", "e", "m", "p", "*">>,
     <<"!", "a", "*">>,
     <<"f", "o", "o", "*", ".", "d">>,
     <<"a", "*", "b">>,
     <<"a", "*", "/">>,
     <<"t", "e", "s", "t", "*", "/">>,
     <<"*", "b", "/">>,
     <<"*", "*", "/", "a", "*", "/">>,
     <<"*", "*", "/", "t", "e", "s", "t", "*", "/">>,
     <<"*", "*", "/", "*", "b", "/">>,
     <<"*", "*", "/", "a", "*", "b", "/">>,
     <<"l", "i", "b", "/">>,
     <<"*", "*", "/", "l", "i", "b", "/">>,
     <<"*", "*", "/", "d", "a", "t", "a", "/">>,
     <<"*", "*", "/", "a", "/">>,
     <<"s", "r", "c", "/", "*", "*", "/", "c", "o", "n", "f", "i", "g", ".", "j", "s", "o", "n">>,
     <<"a", "/", "*", "*", "/", "a">>,
     <<"!", "a", "/", "*", "*", "/", "a">>,
     <<"/", "*", "*", "/", "a">>,
     <<"a", "/", "*", "*", "/">>,
     <<"*", ".", "t", "e", "s", "t", ".", "*">>,
     <<"*", "*", "/", "t", "e", "s", "t", "*", "/", "*", "*">>,
     <<"*", "*", "/", "t", "e", "s", "t", "/", "*", "*">>,
     <<"*", "*", "/", "n", "o", "d", "e", "_", "m", "o", "d", "u", "l", "e", "s", "/", "*", "*">>,
     <<"*", "*", "/", "a", "/", "*", "*">>,
     <<"*", "*", "/", "b", "u", "i", "l", "d", "/", "*", "*">>,
     <<"a", "/", "*", "*", "/", "b", "/", "*", "*">>}

\* paths of the repository's tests and examples for these shapes, and paths
\* that hold a * themselves:
\* file.js  src/app.js  javascript.txt  js/file.ts  build/file.js
\* build/output/bundle.js  builds/file.js  src/build.js  README.md
\* docs/README.md  src/lib/README.md  readme.txt  markdown/file.txt
\* a/**/*.md/a  build/output.js  node_modules/package/index.js  src/main.rs
\* src/readme.txt  src/temp/file.rs  temp/file.rs  temp  foo.d/bar.txt
\* src/foo.d  tests/unit/a.rs  src/tests/test_main.rs
\* tests/integration/mod.rs  tests/unit/test_utils.rs  src/utils/helpers.rs
\* ba*b/a
\* src/mylib/a.rs  metadata/x.json  src/lib/a.rs  data/x  lib
\* src/config.json  src/app/config.json  src/deep/nested/config.json
\* config.json  src/config.js  src/app/configuration.json  file.test.js
\* src/util.test.ts  src/file.test.rs  filetest.js  test.js  src/testutil.js
\* src/file.rs  a.test.b/a  test/file.js  src/tests/util.js
\* src/testing/file.js  test_file.js  tst/file.js  src/tst/util.js
\* src/tests/  deeply/nested/test/script.js  atest/a  src/node_modules/a.js
\* a/b/c
GrammarPaths ==
    {<<"f", "i", "l", "e", ".", "j", "s">>,
     <<"s", "r", "c", "/", "a", "p", "p", ".", "j", "s">>,
     <<"j", "a", "v", "a", "s", "c", "r", "i", "p", "t", ".", "t", "x", "t">>,
     <<"j", "s", "/", "f", "i", "l", "e", ".", "t", "s">>,
     <<"b", "u", "i", "l", "d", "/", "f", "i", "l", "e", ".", "j", "s">>,
     <<"b", "u", "i", "l", "d", "/", "o", "u", "t", "p", "u", "t", "/", "b", "u", "n", "d", "l", "e", ".", "j", "s">>,
     <<"b", "u", "i", "l", "d", "s", "/", "f", "i", "l", "e", ".", "j", "s">>,
     <<"s", "r", "c", "/", "b", "u", "i", "l", "d", ".", "j", "s">>,
     <<"R", "E", "A", "D", "M", "E", ".", "m", "d">>,
     <<"d", "o", "c", "s", "/", "R", "E", "A", "D", "M", "E", ".", "m", "d">>,
     <<"s", "r", "c", "/", "l", "i", "b", "/", "R", "E", "A", "D", "M", "E", ".", "m", "d">>,
     <<"r", "e", "a", "d", "m", "e", ".", "t", "x", "t">>,
     <<"m", "a", "r", "k", "d", "o", "w", "n", "/", "f", "i", "l", "e", ".", "t", "x", "t">>,
     <<"a", "/", "*", "*", "/", "*", ".", "m", "d", "/", "a">>,
     <<"b", "u", "i", "l", "d", "/", "o", "u", "t", "p", "u", "t", ".", "j", "s">>,
     <<"n", "o", "d", "e", "_", "m", "o", "d", "u", "l", "e", "s", "/", "p", "a", "c", "k", "a", "g", "e", "/", "i", "n", "d", "e", "x", ".", "j", "s">>,
     <<"s", "r", "c", "/", "m", "a", "i", "n", ".", "r", "s">>,
     <<"s", "r", "c", "/", "r", "e", "a", "d", "m", "e", ".", "t", "x", "t">>,
     <<"s", "r", "c", "/", "t", "e", "m", "p", "/", "f", "i", "l", "e", ".", "r", "s">>,
     <<"t", "e", "m", "p", "/", "f", "i", "l", "e", ".", "r", "s">>,
     <<"t", "e", "m", "p">>,
     <<"f", "o", "o", ".", "d", "/", "b", "a", "r", ".", "t", "x", "t">>,
     <<"s", "r", "c", "/", "f", "o", "o", ".", "d">>,
     <<"t", "e", "s", "t", "s", "/", "u", "n", "i", "t", "/", "a", ".", "r", "s">>,
     <<"s", "r", "c", "/", "t", "e", "s", "t", "s", "/", "t", "e", "s", "t", "_", "m", "a", "i", "n", ".", "r", "s">>,
     <<"t", "e", "s", "t", "s", "/", "i", "n", "t", "e", "g", "r", "a", "t", "i", "o", "n", "/", "m", "o", "d", ".", "r", "s">>,
     <<"t", "e", "s", "t", "s", "/", "u", "n", "i", "t", "/", "t", "e", "s", "t", "_", "u", "t", "i", "l", "s", ".", "r", "s">>,
     <<"s", "r", "c", "/", "u", "t", "i", "l", "s", "/", "h", "e", "l", "p", "e", "r", "s", ".", "r", "s">>,
     <<"b", "a", "*", "b", "/", "a">>,
     <<"s", "r", "c", "/", "m", "y", "l", "i", "b", "/", "a", ".", "r", "s">>,
     <<"m", "e", "t", "a", "d", "a", "t", "a", "/", "x", ".", "j", "s", "o", "n">>,
     <<"s", "r", "c", "/", "l", "i", "b", "/", "a", ".", "r", "s">>,
     <<"d", "a", "t", "a", "/", "x">>,
     <<"l", "i", "b">>,
     <<"s", "r", "c", "/", "c", "o", "n", "f", "i", "g", ".", "j", "s", "o", "n">>,
     <<"s", "r", "c", "/", "a", "p", "p", "/", "c", "o", "n", "f", "i", "g", ".", "j", "s", "o", "n">>,
     <<"s", "r", "c", "/", "d", "e", "e", "p", "/", "n", "e", "s", "t", "e", "d", "/", "c", "o", "n", "f", "i", "g", ".", "j", "s", "o", "n">>,
     <<"c", "o", "n", "f", "i", "g", ".", "j", "s", "o", "n">>,
     <<"s", "r", "c", "/", "c", "o", "n", "f", "i", "g", ".", "j", "s">>,
     <<"s", "r", "c", "/", "a", "p", "p", "/", "c", "o", "n", "f", "i", "g", "u", "r", "a", "t", "i", "o", "n", ".", "j", "s", "o", "n">>,
     <<"f", "i", "l", "e", ".", "t", "e", "s", "t", ".", "j", "s">>,
     <<"s", "r", "c", "/", "u", "t", "i", "l", ".", "t", "e", "s", "t", ".", "t", "s">>,
     <<"s", "r", "c", "/", "f", "i", "l", "e", ".", "t", "e", "s", "t", ".", "r", "s">>,
     <<"f", "i", "l", "e", "t", "e", "s", "t", ".", "j", "s">>,
     <<"t", "e", "s", "t", ".", "j", "s">>,
     <<"s", "r", "c", "/", "t", "e", "s", "t", "u", "t", "i", "l", ".", "j", "s">>,
     <<"s", "r", "c", "/", "f", "i", "l", "e", ".", "r", "s">>,
     <<"a", ".", "t", "e", "s", "t", ".", "b", "/", "a">>,
     <<"t", "e", "s", "t", "/", "f", "i", "l", "e", ".", "j", "s">>,
     <<"s", "r", "c", "/", "t", "e", "s", "t", "s", "/", "u", "t", "i", "l", ".", "j", "s">>,
     <<"s", "r", "c", "/", "t", "e", "s", "t", "i", "n", "g", "/", "f", "i", "l", "e", ".", "j", "s">>,
     <<"t", "e", "s", "t", "_", "f", "i", "l", "e", ".", "j", "s">>,
     <<"t", "s", "t", "/", "f", "i", "l", "e", ".", "j", "s">>,
     <<"s", "r", "c", "/", "t", "s", "t", "/", "u", "t", "i", "l", ".", "j", "s">>,
     <<"s", "r", "c", "/", "t", "e", "s", "t", "s", "/">>,
     <<"d", "e", "e", "p", "l", "y", "/", "n", "e", "s", "t", "e", "d", "/", "t", "e", "s", "t", "/", "s", "c", "r", "i", "p", "t", ".", "j", "s">>,
     <<"a", "t", "e", "s", "t", "/", "a">>,
     <<"s", "r", "c", "/", "n", "o", "d", "e", "_", "m", "o", "d", "u", "l", "e", "s", "/", "a", ".", "j", "s">>,
     <<"a", "/", "b", "/", "c">>}

\* pattern sets of the tests: an any-depth pattern beside the sentinel, a
\* negated pattern or a directory pattern:
\* {**/*.md, !a}  {**/*.md, a/}  {.git, **/*.js}  {.git, **/*.md}
\* {*.test.*, !a}  {*.test.*, a/}
SampleSets ==
    {{<<"*", "*", "/", "*", ".", "m", "d">>, <<"!", "a">>},
     {<<"*", "*", "/", "*", ".", "m", "d">>, <<"a", "/">>},
     {<<".", "g", "i", "t">>, <<"*", "*", "/", "*", ".", "j", "s">>},
     {<<".", "g", "i", "t">>, <<"*", "*", "/", "*", ".", "m", "d">>},
     {<<"*", ".", "t", "e", "s", "t", ".", "*">>, <<"!", "a">>},
     {<<"*", ".", "t", "e", "s", "t", ".", "*">>, <<"a", "/">>}}

Paths ==
    {Join(q, SLASH) : q \in SeqsUpTo(CoreSegments, MaxDepth)}
        \cup SamplePaths \cup GrammarPaths

Patterns == SetPool \cup SinglePool \cup GrammarPatterns

PatternSets ==
    {S \in SUBSET SetPool : Cardinality(S) <= MaxPatterns}
        \cup {{q} : q \in SinglePool \cup GrammarPatterns}
        \cup SampleSets

---------------------------------------------------------------------------
(* The match engine called on one path and one pattern set *)

\* the values of main's state while only the library is called
NoCli == [project_path |-> "given", no_gitignore |-> FALSE, no_digestignore |-> FALSE,
          no_ignore |-> FALSE, ignore_patterns |-> <<>>]
NoEnv == [current_dir |-> "ok", main_language |-> "<none>", is_godot_project |-> FALSE]

\* no ignore file in the project directory
NoFiles == [digestignore |-> NoFile, gitignore |-> NoFile]

\* no entry: the value of `entry` outside a loop iteration
NoEntry == [kind |-> "none", rel |-> <<>>, fate |-> "none"]

\* the values of the other callers' state while they do not run
Idle ==
    /\ main_verdict = "none"
    /\ project_path = <<>>
    /\ entries = <<>>
    /\ entry = NoEntry
    /\ files = <<>>
    /\ max_files = 0

Init ==
    /\ pc = "call"
    /\ path \in Paths
    /\ patterns \in PatternSets
    /\ order = <<>>
    /\ verdict = "none"
    /\ fs = NoFiles
    /\ digest_result = Pending
    /\ git_result = Pending
    /\ cli = NoCli
    /\ env = NoEnv
    /\ using_digestignore = FALSE
    /\ using_gitignore = FALSE
    /\ log = <<>>
    /\ Idle

\* lib.rs 15-252: one call of should_ignore; the HashSet yields its elements
\* in an order the caller does not control
CallShouldIgnore ==
    /\ pc = "call"
    /\ \E o \in Orders(patterns) :
        /\ order' = o
        /\ verdict' = should_ignore(path, o)
    /\ pc' = "done"
    /\ UNCHANGED <<bin_vars, walk_vars, path, patterns, fs, digest_result, git_result, main_vars>>

Next == CallShouldIgnore

Spec == Init /\ [][Next]_vars

---------------------------------------------------------------------------
(* The two loaders, their union, and the match engine on the union *)

\* the characters ignore-file contents are built from
ContentAlphabet == {"a", "#", " ", "\n"}

\* the strings over S of length n, and of length up to n
RECURSIVE StringsOfLen(_, _)
StringsOfLen(S, n) ==
    IF n = 0 THEN {<<>>}
    ELSE {Append(q, c) : q \in StringsOfLen(S, n - 1), c \in S}

StringsUpTo(S, n) == UNION {StringsOfLen(S, k) : k \in 0..n}

\* every content of up to MaxContentLen characters
Contents == StringsUpTo(ContentAlphabet, MaxContentLen)

\* what the other file is while one file takes every content
OtherFileStates ==
    {NoFile, Unreadable, File(<<>>), File(<<"b", "u", "i", "l", "d", "/">>)}

\* the two files of the tests: build/ and docs/; an empty file beside a
\* comment, a blank line, a pattern with a trailing space and a glob; two
\* patterns with CRLF line ends and no second file
SampleFiles ==
    {[gitignore |-> File(<<"b", "u", "i", "l", "d", "/">>),
      digestignore |-> File(<<"d", "o", "c", "s", "/">>)],
     [gitignore |-> File(<<>>),
      digestignore |-> File(<<"#", " ", "c", "\n", "\n", "n", "o", "d", "e", "_", "m", "o", "d", "u", "l", "e", "s", "/", " ", "\n", "*", ".", "l", "o", "g">>)],
     [gitignore |-> File(<<"*", ".", "j", "s", "\r", "\n", "!", "d", "i", "s", "t", "/", "a", "p", "p", ".", "j", "s", "\n">>),
      digestignore |-> NoFile]}

\* paths the walk visits:
\* build/x.js  docs/readme.md  dist/app.js  node_modules/x.js  a
VisitedPaths ==
    {<<"b", "u", "i", "l", "d", "/", "x", ".", "j", "s">>,
     <<"d", "o", "c", "s", "/", "r", "e", "a", "d", "m", "e", ".", "m", "d">>,
     <<"d", "i", "s", "t", "/", "a", "p", "p", ".", "j", "s">>,
     <<"n", "o", "d", "e", "_", "m", "o", "d", "u", "l", "e", "s", "/", "x", ".", "j", "s">>,
     <<"a">>}

InitLoad ==
    /\ pc = "load_digestignore"
    /\ fs \in [digestignore : {File(c) : c \in Contents}, gitignore : OtherFileStates]
            \cup [digestignore : OtherFileStates, gitignore : {File(c) : c \in Contents}]
            \cup SampleFiles
    /\ path = <<>>
    /\ patterns = {}
    /\ order = <<>>
    /\ verdict = "none"
    /\ digest_result = Pending
    /\ git_result = Pending
    /\ cli = NoCli
    /\ env = NoEnv
    /\ using_digestignore = FALSE
    /\ using_gitignore = FALSE
    /\ log = <<>>
    /\ Idle

\* lib.rs 254-281, and the caller's extend on Ok
LoadDigestignore ==
    /\ pc = "load_digestignore"
    /\ digest_result' = check_for_digestignore(fs)
    /\ patterns' = IF digest_result'.tag = "Ok"
                   THEN extend(patterns, digest_result'.value) ELSE patterns
    /\ pc' = "load_gitignore"
    /\ UNCHANGED <<bin_vars, walk_vars, path, order, verdict, fs, git_result, main_vars>>

\* lib.rs 283-306, and the caller's extend on Ok
LoadGitignore ==
    /\ pc = "load_gitignore"
    /\ git_result' = check_for_gitignore(fs)
    /\ patterns' = IF git_result'.tag = "Ok"
                   THEN extend(patterns, git_result'.value) ELSE patterns
    /\ pc' = "walk"
    /\ UNCHANGED <<bin_vars, walk_vars, path, order, verdict, fs, digest_result, main_vars>>

\* lib.rs 328-337: the walk yields an entry
VisitEntry ==
    /\ pc = "walk"
    /\ path' \in VisitedPaths
    /\ pc' = "call"
    /\ UNCHANGED <<bin_vars, walk_vars, patterns, order, verdict, fs, digest_result, git_result, main_vars>>

NextLoad == LoadDigestignore \/ LoadGitignore \/ VisitEntry \/ CallShouldIgnore

SpecLoad == InitLoad /\ [][NextLoad]_vars

---------------------------------------------------------------------------
(* The construction of the pattern set, src/src/main.rs *)

\* lines 249-267: the patterns ignored for every language:
\* .git  .github  .vscode  .idea  node_modules  target  build  dist  venv  .venv  env  .env  .DS_Store  *.log  *.lock  yarn.lock  package-lock.json
common_patterns ==
    {<<".", "g", "i", "t">>,
     <<".", "g", "i", "t", "h", "u", "b">>,
     <<".", "v", "s", "c", "o", "d", "e">>,
     <<".", "i", "d", "e", "a">>,
     <<"n", "o", "d", "e", "_", "m", "o", "d", "u", "l", "e", "s">>,
     <<"t", "a", "r", "g", "e", "t">>,
     <<"b", "u", "i", "l", "d">>,
     <<"d", "i", "s", "t">>,
     <<"v", "e", "n", "v">>,
     <<".", "v", "e", "n", "v">>,
     <<"e", "n", "v">>,
     <<".", "e", "n", "v">>,
     <<".", "D", "S", "_", "S", "t", "o", "r", "e">>,
     <<"*", ".", "l", "o", "g">>,
     <<"*", ".", "l", "o", "c", "k">>,
     <<"y", "a", "r", "n", ".", "l", "o", "c", "k">>,
     <<"p", "a", "c", "k", "a", "g", "e", "-", "l", "o", "c", "k", ".", "j", "s", "o", "n">>}

\* lines 270-309: the patterns added for the main language
language_patterns(main_language, is_godot_project) ==
    IF main_language \in {"JavaScript", "TypeScript"} THEN
        {<<"n", "o", "d", "e", "_", "m", "o", "d", "u", "l", "e", "s">>,
         <<"*", ".", "m", "i", "n", ".", "j", "s">>,
         <<"*", ".", "b", "u", "n", "d", "l", "e", ".", "j", "s">>}
    ELSE IF main_language = "Python" THEN
        {<<"_", "_", "p", "y", "c", "a", "c", "h", "e", "_", "_">>,
         <<"*", ".", "p", "y", "c">>,
         <<".", "p", "y", "t", "e", "s", "t", "_", "c", "a", "c", "h", "e">>}
    ELSE IF main_language = "Rust" THEN
        {<<"t", "a", "r", "g", "e", "t">>,
         <<"C", "a", "r", "g", "o", ".", "l", "o", "c", "k">>}
    ELSE IF main_language = "Java" THEN
        {<<"*", ".", "c", "l", "a", "s", "s">>,
         <<"b", "i", "n">>,
         <<"o", "u", "t">>}
    ELSE IF main_language = "Go" THEN
        {<<"v", "e", "n", "d", "o", "r">>,
         <<"*", ".", "p", "b", ".", "g", "o">>}
    ELSE IF main_language = "Lua" THEN
        {<<"*", ".", "l", "u", "a", "c">>,
         <<"l", "u", "a", "r", "o", "c", "k", "s">>}
    ELSE IF main_language = "C#" /\ ~is_godot_project THEN
        {<<"b", "i", "n">>,
         <<"o", "b", "j">>,
         <<"*", ".", "d", "l", "l">>}
    ELSE {}

\* lines 312-317: what a Godot project must not ignore: .import, addons
godot_kept ==
    {<<".", "i", "m", "p", "o", "r", "t">>,
     <<"a", "d", "d", "o", "n", "s">>}

\* a slip: the common list written without its .git entry
build_ignore_patterns_without_git(main_language, is_godot_project) ==
    LET patterns_ == (common_patterns \ {DOTGIT})
                        \cup language_patterns(main_language, is_godot_project)
    IN IF is_godot_project THEN patterns_ \ godot_kept ELSE patterns_

\* lines 244-320: build_ignore_patterns
build_ignore_patterns(main_language, is_godot_project) ==
    LET patterns_ == common_patterns \cup language_patterns(main_language, is_godot_project)
    IN IF is_godot_project THEN patterns_ \ godot_kept ELSE patterns_

\* a slip: a missing .digestignore read as an empty file
main_check_for_digestignore_missing_is_empty(dir) ==
    IF dir.digestignore.kind = "unreadable" THEN Err("Failed to read .digestignore")
    ELSE Ok(insert_lines(Lines(dir.digestignore.content), {DOTGIT}))

\* lines 322-354: check_for_digestignore as main.rs defines it
main_check_for_digestignore(dir) ==
    IF dir.digestignore.kind = "missing" THEN Err("No .digestignore file found")
    ELSE IF dir.digestignore.kind = "unreadable" THEN Err("Failed to read .digestignore")
    ELSE Ok(insert_lines(Lines(dir.digestignore.content), {DOTGIT}))

\* a slip: the set started empty, without the .git sentinel
main_check_for_gitignore_without_sentinel(dir) ==
    IF dir.gitignore.kind = "missing" THEN Err("No .gitignore file found")
    ELSE IF dir.gitignore.kind = "unreadable" THEN Err("Failed to read .gitignore")
    ELSE Ok(insert_lines(Lines(dir.gitignore.content), {}))

\* lines 356-381: check_for_gitignore as main.rs defines it
main_check_for_gitignore(dir) ==
    IF dir.gitignore.kind = "missing" THEN Err("No .gitignore file found")
    ELSE IF dir.gitignore.kind = "unreadable" THEN Err("Failed to read .gitignore")
    ELSE Ok(insert_lines(Lines(dir.gitignore.content), {DOTGIT}))

\* the elements of a Vec<String>
Elements(seq) == {seq[i] : i \in 1..Len(seq)}

\* the values Option<String> main_language takes: every arm of the match of
\* build_ignore_patterns, a language without arm, and None
Languages ==
    {"<none>", "JavaScript", "TypeScript", "Python", "Rust", "Java", "Go", "Lua", "C#", "Ruby"}

\* the ignore files main may find: none, an unreadable one, an empty one, and
\* one with a directory pattern, a comment and a glob
MainFileStates ==
    {NoFile, Unreadable, File(<<>>),
     File(<<"b", "u", "i", "l", "d", "/", "\n", "#", " ", "c", "\n", "*", ".", "l", "o", "g">>)}

\* the patterns given with --ignore-pattern: a literal and a negated .git
CliPatternPool ==
    {<<"s", "e", "c", "r", "e", "t", ".", "t", "x", "t">>,
     <<"!", ".", "g", "i", "t">>}

CliPatternLists ==
    {<<>>} \cup SeqsUpTo(CliPatternPool, MaxCliPatterns)

InitMain ==
    /\ pc = "project_path"
    /\ cli \in [project_path : {"given", "absent"}, no_gitignore : BOOLEAN,
                no_digestignore : BOOLEAN, no_ignore : BOOLEAN,
                ignore_patterns : CliPatternLists]
    /\ env \in [current_dir : {"ok", "error"}, main_language : Languages,
                is_godot_project : BOOLEAN]
    /\ (cli.project_path = "given" => env.current_dir = "ok")
    /\ fs \in [digestignore : MainFileStates, gitignore : MainFileStates]
    /\ path = <<>>
    /\ patterns = {}
    /\ order = <<>>
    /\ verdict = "none"
    /\ digest_result = Pending
    /\ git_result = Pending
    /\ using_digestignore = FALSE
    /\ using_gitignore = FALSE
    /\ log = <<>>
    /\ Idle

\* lines 80-83: the project path is the argument or the current directory
MainProjectPath ==
    /\ pc = "project_path"
    /\ (cli.project_path = "given" \/ env.current_dir = "ok")
    /\ pc' = "step2"
    /\ UNCHANGED <<bin_vars, walk_vars, path, patterns, order, verdict, fs, digest_result, git_result, main_vars>>

\* line 82: env::current_dir()? fails and main returns the error
MainAbort ==
    /\ pc = "project_path"
    /\ cli.project_path = "absent"
    /\ env.current_dir = "error"
    /\ pc' = "aborted"
    /\ UNCHANGED <<bin_vars, walk_vars, path, patterns, order, verdict, fs, digest_result, git_result, main_vars>>

\* lines 108-111, 160-164: --no-ignore: only .git is inserted
MainNoIgnore ==
    /\ pc = "step2"
    /\ cli.no_ignore
    /\ patterns' = {DOTGIT}
    /\ log' = Append(log, "Ignoring all ignore files due to --no-ignore flag.")
    /\ pc' = "cli_patterns"
    /\ UNCHANGED <<bin_vars, walk_vars, path, order, verdict, fs, digest_result, git_result, cli, env,
                   using_digestignore, using_gitignore>>

\* lines 113-118: .digestignore loaded, its patterns added
MainDigestignoreLoaded ==
    /\ pc = "step2"
    /\ ~cli.no_ignore
    /\ ~cli.no_digestignore
    /\ main_check_for_digestignore(fs).tag = "Ok"
    /\ digest_result' = main_check_for_digestignore(fs)
    /\ patterns' = extend(patterns, digest_result'.value)
    /\ using_digestignore' = TRUE
    /\ pc' = "gitignore"
    /\ UNCHANGED <<bin_vars, walk_vars, path, order, verdict, fs, git_result, cli, env, using_gitignore, log>>

\* lines 119-122: the loader failed: this source adds nothing
MainDigestignoreError ==
    /\ pc = "step2"
    /\ ~cli.no_ignore
    /\ ~cli.no_digestignore
    /\ main_check_for_digestignore(fs).tag = "Err"
    /\ digest_result' = main_check_for_digestignore(fs)
    /\ using_digestignore' = FALSE
    /\ log' = Append(log, "No .digestignore file found.")
    /\ pc' = "gitignore"
    /\ UNCHANGED <<bin_vars, walk_vars, path, patterns, order, verdict, fs, git_result, cli, env, using_gitignore>>

\* lines 124-127: --no-digestignore: the loader is not called
MainDigestignoreSkipped ==
    /\ pc = "step2"
    /\ ~cli.no_ignore
    /\ cli.no_digestignore
    /\ using_digestignore' = FALSE
    /\ log' = Append(log, "Skipping .digestignore due to --no-digestignore flag.")
    /\ pc' = "gitignore"
    /\ UNCHANGED <<bin_vars, walk_vars, path, patterns, order, verdict, fs, digest_result, git_result, cli, env,
                   using_gitignore>>

\* lines 130-135: .gitignore loaded, its patterns added
MainGitignoreLoaded ==
    /\ pc = "gitignore"
    /\ ~cli.no_gitignore
    /\ main_check_for_gitignore(fs).tag = "Ok"
    /\ git_result' = main_check_for_gitignore(fs)
    /\ patterns' = extend(patterns, git_result'.value)
    /\ using_gitignore' = TRUE
    /\ pc' = "defaults"
    /\ UNCHANGED <<bin_vars, walk_vars, path, order, verdict, fs, digest_result, cli, env, using_digestignore, log>>

\* lines 136-139: the loader failed: this source adds nothing
MainGitignoreError ==
    /\ pc = "gitignore"
    /\ ~cli.no_gitignore
    /\ main_check_for_gitignore(fs).tag = "Err"
    /\ git_result' = main_check_for_gitignore(fs)
    /\ using_gitignore' = FALSE
    /\ log' = Append(log, "No .gitignore file found.")
    /\ pc' = "defaults"
    /\ UNCHANGED <<bin_vars, walk_vars, path, patterns, order, verdict, fs, digest_result, cli, env,
                   using_digestignore>>

\* lines 141-144: --no-gitignore: the loader is not called
MainGitignoreSkipped ==
    /\ pc = "gitignore"
    /\ cli.no_gitignore
    /\ using_gitignore' = FALSE
    /\ log' = Append(log, "Skipping .gitignore due to --no-gitignore flag.")
    /\ pc' = "defaults"
    /\ UNCHANGED <<bin_vars, walk_vars, path, patterns, order, verdict, fs, digest_result, git_result, cli, env,
                   using_digestignore>>

\* lines 147-149: the set is still empty: the built-in defaults replace it
MainUseDefaults ==
    /\ pc = "defaults"
    /\ patterns = {}
    /\ patterns' = build_ignore_patterns(env.main_language, env.is_godot_project)
    /\ log' = Append(log, "No ignore files found or used. Using default ignore patterns.")
    /\ pc' = "cli_patterns"
    /\ UNCHANGED <<bin_vars, walk_vars, path, order, verdict, fs, digest_result, git_result, cli, env,
                   using_digestignore, using_gitignore>>

\* lines 151-158: the info! line that names the sources used
ignore_sources_line(digestignore_used, gitignore_used) ==
    IF digestignore_used /\ gitignore_used
    THEN "Using ignore patterns from: .digestignore, .gitignore"
    ELSE IF digestignore_used THEN "Using ignore patterns from: .digestignore"
    ELSE IF gitignore_used THEN "Using ignore patterns from: .gitignore"
    ELSE "Using ignore patterns from: "

\* lines 150-159: the set is not empty: the sources used are logged
MainUseSources ==
    /\ pc = "defaults"
    /\ patterns # {}
    /\ log' = Append(log, ignore_sources_line(using_digestignore, using_gitignore))
    /\ pc' = "cli_patterns"
    /\ UNCHANGED <<bin_vars, walk_vars, path, patterns, order, verdict, fs, digest_result, git_result, cli, env,
                   using_digestignore, using_gitignore>>

\* lines 167-175: the --ignore-pattern arguments are inserted
MainAddCliPatterns ==
    /\ pc = "cli_patterns"
    /\ patterns' = patterns \cup Elements(cli.ignore_patterns)
    /\ log' = IF cli.ignore_patterns # <<>>
              THEN Append(log, "Adding custom ignore patterns from command line")
              ELSE log
    /\ pc' = "collect"
    /\ UNCHANGED <<bin_vars, walk_vars, path, order, verdict, fs, digest_result, git_result, cli, env,
                   using_digestignore, using_gitignore>>

\* lines 178-185: the set is handed to collect_relevant_files
MainCollect ==
    /\ pc = "collect"
    /\ pc' = "collecting"
    /\ UNCHANGED <<bin_vars, walk_vars, path, patterns, order, verdict, fs, digest_result, git_result, main_vars>>

NextMain ==
    \/ MainProjectPath
    \/ MainAbort
    \/ MainNoIgnore
    \/ MainDigestignoreLoaded
    \/ MainDigestignoreError
    \/ MainDigestignoreSkipped
    \/ MainGitignoreLoaded
    \/ MainGitignoreError
    \/ MainGitignoreSkipped
    \/ MainUseDefaults
    \/ MainUseSources
    \/ MainAddCliPatterns
    \/ MainCollect

SpecMain == InitMain /\ [][NextMain]_vars

---------------------------------------------------------------------------
(* should_ignore of the binary, src/src/main.rs *)

\* main.rs 393-398: the shortcut for the pattern **/test/**, the only one
main_shortcut_test_dir(path_str, pattern) ==
    /\ pattern = PAT_TEST_DIR
    /\ (Contains(path_str, SLASH_TEST_SLASH) \/ StartsWith(path_str, TEST_SLASH))

\* main.rs 401-404: the .git directory is always ignored
main_is_git_path(path_str) ==
    Contains(path_str, SLASH_DOTGIT_SLASH) \/ path_str = DOTGIT

\* main.rs 420-430: a pattern that starts with **/
main_match_leading_double_star(path_str, pattern) ==
    /\ StartsWith(pattern, STARSTAR_SLASH)
    /\ LET suffix == SubSeq(pattern, 4, Len(pattern))
       IN \/ path_str = suffix
          \/ EndsWith(path_str, suffix)
          \/ Contains(path_str, SLASH \o suffix)

\* main.rs 433-439: a pattern that ends with /**
main_match_trailing_double_star(path_str, pattern) ==
    /\ EndsWith(pattern, SLASH_STARSTAR)
    /\ LET prefix == SubSeq(pattern, 1, Len(pattern) - 3)
       IN \/ StartsWith(path_str, prefix)
          \/ Contains(path_str, SLASH \o prefix)

\* main.rs 442-465: a pattern that contains /**/
main_match_middle_double_star(path_str, pattern) ==
    /\ Contains(pattern, SLASH_STARSTAR_SLASH)
    /\ LET segments == Split(pattern, SLASH_STARSTAR_SLASH)
       IN /\ Len(segments) >= 2
          /\ LET prefix == segments[1]
                 suffix == segments[2]
                 prefix_matches ==
                     \/ prefix = <<>>
                     \/ StartsWith(path_str, prefix)
                     \/ Contains(path_str, SLASH \o prefix)
                 suffix_matches ==
                     \/ suffix = <<>>
                     \/ EndsWith(path_str, suffix)
                     \/ Contains(path_str, suffix \o SLASH)
             IN prefix_matches /\ suffix_matches

\* main.rs 468-486: a pattern that ends with /; whatever the outcome, no
\* later rule is tried for this pattern
main_match_directory(path_str, pattern) ==
    LET dir_name == SubSeq(pattern, 1, Len(pattern) - 1)
    IN \/ path_str = dir_name
       \/ StartsWith(path_str, dir_name \o SLASH)
       \/ Contains(path_str, SLASH \o dir_name \o SLASH)

\* main.rs 489-494: the shortcut for the pattern *.test.*
main_shortcut_test_glob(path_str, pattern) ==
    pattern = PAT_TEST_GLOB /\ Contains(path_str, DOT_TEST_DOT)

\* main.rs 497-524: a pattern with * and without **
main_match_single_star(path_str, pattern) ==
    LET parts == Split(pattern, STAR)
    IN /\ Len(parts) = 2
       /\ \/ StartsWith(pattern, STAR) /\ EndsWith(path_str, parts[2])
          \/ EndsWith(pattern, STAR) /\ StartsWith(path_str, parts[1])
          \/ StartsWith(path_str, parts[1]) /\ EndsWith(path_str, parts[2])

\* main.rs 525-537: a pattern without *, or with **
main_match_literal(path_str, pattern) ==
    \/ path_str = pattern
    \/ EndsWith(path_str, pattern)
    \/ Contains(path_str, SLASH \o pattern)

\* main.rs 407-537: the rules applied to the trimmed pattern
main_match_trimmed(path_str, pattern) ==
    IF pattern = <<>> \/ StartsWith(pattern, <<"#">>) THEN FALSE
    ELSE IF StartsWith(pattern, <<"!">>) THEN FALSE
    ELSE IF main_match_leading_double_star(path_str, pattern) THEN TRUE
    ELSE IF main_match_trailing_double_star(path_str, pattern) THEN TRUE
    ELSE IF main_match_middle_double_star(path_str, pattern) THEN TRUE
    ELSE IF EndsWith(pattern, SLASH) THEN main_match_directory(path_str, pattern)
    ELSE IF main_shortcut_test_glob(path_str, pattern) THEN TRUE
    ELSE IF Contains(pattern, STAR) /\ ~Contains(pattern, STARSTAR)
         THEN main_match_single_star(path_str, pattern)
         ELSE main_match_literal(path_str, pattern)

\* main.rs 391-538: one pass of the loop body for one pattern
main_loop_body(path_str, pattern) ==
    IF main_shortcut_test_dir(path_str, pattern) THEN "return_true"
    ELSE IF main_is_git_path(path_str) THEN "return_true"
    ELSE IF main_match_trimmed(path_str, Trim(pattern)) THEN "return_true"
    ELSE "continue"

\* main.rs 391-540: the loop over the patterns in the order the set yields
\* them
RECURSIVE main_loop_over(_, _)
main_loop_over(path_str, seq) ==
    IF seq = <<>> THEN FALSE
    ELSE IF main_loop_body(path_str, Head(seq)) = "return_true" THEN TRUE
    ELSE main_loop_over(path_str, Tail(seq))

\* main.rs 383-541: should_ignore(path, ignore_patterns) of the binary
main_should_ignore(p, seq) == main_loop_over(Replace(p, "\\", "/"), seq)

\* paths the two functions are compared on, besides the sample paths:
\* builds/file.js  build/file.js  src/myREADME.md  src/README.md  README.md  docs/README.md  src/main.js  main.js
ComparedPaths ==
    {<<"b", "u", "i", "l", "d", "s", "/", "f", "i", "l", "e", ".", "j", "s">>,
     <<"b", "u", "i", "l", "d", "/", "f", "i", "l", "e", ".", "j", "s">>,
     <<"s", "r", "c", "/", "m", "y", "R", "E", "A", "D", "M", "E", ".", "m", "d">>,
     <<"s", "r", "c", "/", "R", "E", "A", "D", "M", "E", ".", "m", "d">>,
     <<"R", "E", "A", "D", "M", "E", ".", "m", "d">>,
     <<"d", "o", "c", "s", "/", "R", "E", "A", "D", "M", "E", ".", "m", "d">>,
     <<"s", "r", "c", "/", "m", "a", "i", "n", ".", "j", "s">>,
     <<"m", "a", "i", "n", ".", "j", "s">>}

\* patterns the two functions are compared under, besides the grammar's:
\* build/**  *.js  README.md  **/*.md
ComparedPatterns ==
    {<<"b", "u", "i", "l", "d", "/", "*", "*">>,
     <<"*", ".", "j", "s">>,
     <<"R", "E", "A", "D", "M", "E", ".", "m", "d">>,
     PAT_ANY_MD}

\* the same path and the same pattern set are given to both functions
InitBin ==
    /\ pc = "call"
    /\ path \in SamplePaths \cup GrammarPaths \cup ComparedPaths
    /\ patterns \in {{q} : q \in SinglePool \cup GrammarPatterns \cup ComparedPatterns}
                        \cup SampleSets
    /\ order = <<>>
    /\ verdict = "none"
    /\ fs = NoFiles
    /\ digest_result = Pending
    /\ git_result = Pending
    /\ cli = NoCli
    /\ env = NoEnv
    /\ using_digestignore = FALSE
    /\ using_gitignore = FALSE
    /\ log = <<>>
    /\ Idle

\* main.rs 383-541: one call of the binary's should_ignore on the arguments
\* the library's was called with; its HashSet yields its own order
MainCallShouldIgnore ==
    /\ pc = "done"
    /\ \E o \in Orders(patterns) :
        main_verdict' = main_should_ignore(path, o)
    /\ pc' = "compared"
    /\ UNCHANGED <<walk_vars, path, patterns, order, verdict, fs, digest_result, git_result, main_vars>>

NextBin == CallShouldIgnore \/ MainCallShouldIgnore

SpecBin == InitBin /\ [][NextBin]_vars

---------------------------------------------------------------------------
(* collect_relevant_files, src/src/lib.rs *)

\* the largest max_files a traversal is called with
MaxFilesArg == 2

\* lib.rs 450-479: is_common_code_file(ext)
is_common_code_file(ext) ==
    ext \in {<<"r", "s">>,
             <<"j", "s">>,
             <<"t", "s">>,
             <<"p", "y">>,
             <<"j", "a", "v", "a">>,
             <<"g", "o">>,
             <<"c">>,
             <<"c", "p", "p">>,
             <<"h">>,
             <<"h", "p", "p">>,
             <<"r", "b">>,
             <<"p", "h", "p">>,
             <<"c", "s">>,
             <<"h", "t", "m", "l">>,
             <<"c", "s", "s">>,
             <<"j", "s", "o", "n">>,
             <<"m", "d">>,
             <<"y", "m", "l">>,
             <<"y", "a", "m", "l">>,
             <<"t", "o", "m", "l">>,
             <<"g", "d">>,
             <<"t", "s", "c", "n">>,
             <<"t", "r", "e", "s">>,
             <<"s", "h", "a", "d", "e", "r">>}

\* lib.rs 363: path.extension(): <<>> for None, <<ext>> for Some(ext); the
\* text after the last dot of the file name, None when the name has no dot
\* or only a leading one
extension(p) ==
    LET parts == Split(Last(Split(p, SLASH)), <<".">>)
    IN IF Len(parts) < 2 \/ (Len(parts) = 2 /\ parts[1] = <<>>)
       THEN <<>>
       ELSE <<Last(parts)>>

\* lib.rs 366-379: should_include
should_include(ext, is_godot_project) ==
    /\ ext # <<>>
    /\ \/ is_godot_project /\ ext[1] \in {<<"g", "d">>,
                               <<"t", "s", "c", "n">>,
                               <<"c", "s">>,
                               <<"g", "o", "d", "o", "t">>,
                               <<"t", "r", "e", "s">>,
                               <<"i", "m", "p", "o", "r", "t">>,
                               <<"s", "h", "a", "d", "e", "r">>}
       \/ is_common_code_file(ext[1])

\* lib.rs 337: entry.path(): the walker yields the root it was built with,
\* joined with the entry's place below it
entry_path(root, rel) ==
    IF rel = <<>> THEN root ELSE root \o SLASH \o rel

\* lib.rs 430-434: path.strip_prefix(project_path), which cannot fail for a
\* path the walker built from project_path
strip_prefix(p, root) ==
    IF p = root THEN <<>> ELSE SubSeq(p, Len(root) + 2, Len(p))

\* what the walker yields: an error, a directory, or a file together with
\* the outcome of the file-system calls made on it (lines 350, 358, 386)
ErrorEntry == [kind |-> "error", rel |-> <<>>, fate |-> "none"]
DirEntry(rel) == [kind |-> "dir", rel |-> rel, fate |-> "none"]
FileEntry(rel, fate) == [kind |-> "file", rel |-> rel, fate |-> fate]

\* the roots a traversal starts from:
\* proj  build/proj  .
Roots ==
    {<<"p", "r", "o", "j">>,
     <<"b", "u", "i", "l", "d", "/", "p", "r", "o", "j">>,
     <<".">>}

\* the walks, the root directory first:
\* a.rs, src/, src/b.rs, src/c.rs
\* an error, a.rs (no metadata), big.rs (too large), notes.txt, b.rs (unreadable), c.rs
\* build/, build/x.js, project.godot, main.gd
\* an empty directory
WalkedTrees ==
    {<<DirEntry(<<>>),
       FileEntry(<<"a", ".", "r", "s">>, "ok"),
       DirEntry(<<"s", "r", "c">>),
       FileEntry(<<"s", "r", "c", "/", "b", ".", "r", "s">>, "ok"),
       FileEntry(<<"s", "r", "c", "/", "c", ".", "r", "s">>, "ok")>>,
     <<DirEntry(<<>>),
       ErrorEntry,
       FileEntry(<<"a", ".", "r", "s">>, "metadata_error"),
       FileEntry(<<"b", "i", "g", ".", "r", "s">>, "too_large"),
       FileEntry(<<"n", "o", "t", "e", "s", ".", "t", "x", "t">>, "ok"),
       FileEntry(<<"b", ".", "r", "s">>, "unreadable"),
       FileEntry(<<"c", ".", "r", "s">>, "ok")>>,
     <<DirEntry(<<>>),
       DirEntry(<<"b", "u", "i", "l", "d">>),
       FileEntry(<<"b", "u", "i", "l", "d", "/", "x", ".", "j", "s">>, "ok"),
       FileEntry(<<"p", "r", "o", "j", "e", "c", "t", ".", "g", "o", "d", "o", "t">>, "ok"),
       FileEntry(<<"m", "a", "i", "n", ".", "g", "d">>, "ok")>>,
     <<DirEntry(<<>>)>>}

\* the pattern sets of the traversals:
\* {}  {build/}  {src/}  {*.rs}  {build/, *.js}
WalkPatternSets ==
    {{},
     {<<"b", "u", "i", "l", "d", "/">>},
     {<<"s", "r", "c", "/">>},
     {<<"*", ".", "r", "s">>},
     {<<"b", "u", "i", "l", "d", "/">>, <<"*", ".", "j", "s">>}}

\* lib.rs 308-326: the arguments, and `files` empty
InitCollect ==
    /\ pc = "collect"
    /\ project_path \in Roots
    /\ entries \in WalkedTrees
    /\ patterns \in WalkPatternSets
    /\ max_files \in 0..MaxFilesArg
    /\ env \in {NoEnv, [NoEnv EXCEPT !.is_godot_project = TRUE]}
    /\ files = <<>>
    /\ entry = NoEntry
    /\ path = <<>>
    /\ order = <<>>
    /\ verdict = "none"
    /\ main_verdict = "none"
    /\ fs = NoFiles
    /\ digest_result = Pending
    /\ git_result = Pending
    /\ cli = NoCli
    /\ using_digestignore = FALSE
    /\ using_gitignore = FALSE
    /\ log = <<>>

\* lib.rs 329-335: the walker yields an error: reported, next entry
CollectEntryError ==
    /\ pc = "collect"
    /\ entries # <<>>
    /\ Head(entries).kind = "error"
    /\ entry' = Head(entries)
    /\ entries' = Tail(entries)
    /\ order' = <<>>
    /\ verdict' = "none"
    /\ UNCHANGED <<pc, path, patterns, files, project_path, max_files, bin_vars,
                   fs, digest_result, git_result, main_vars>>

\* lib.rs 337-342: a directory is skipped before should_ignore is called
CollectSkipDirectory ==
    /\ pc = "collect"
    /\ entries # <<>>
    /\ Head(entries).kind = "dir"
    /\ entry' = Head(entries)
    /\ entries' = Tail(entries)
    /\ path' = entry_path(project_path, Head(entries).rel)
    /\ order' = <<>>
    /\ verdict' = "none"
    /\ UNCHANGED <<pc, patterns, files, project_path, max_files, bin_vars,
                   fs, digest_result, git_result, main_vars>>

\* lib.rs 337-347: should_ignore, called with the entry's path, says true
CollectIgnored ==
    /\ pc = "collect"
    /\ entries # <<>>
    /\ Head(entries).kind = "file"
    /\ entry' = Head(entries)
    /\ entries' = Tail(entries)
    /\ path' = entry_path(project_path, Head(entries).rel)
    /\ \E o \in Orders(patterns) :
        /\ order' = o
        /\ verdict' = should_ignore(path', o)
    /\ verdict' = TRUE
    /\ UNCHANGED <<pc, patterns, files, project_path, max_files, bin_vars,
                   fs, digest_result, git_result, main_vars>>

\* lib.rs 337-392: a file that is not ignored and is left out: no metadata,
\* too large, not a code file, or not readable
CollectSkipFile ==
    /\ pc = "collect"
    /\ entries # <<>>
    /\ Head(entries).kind = "file"
    /\ entry' = Head(entries)
    /\ entries' = Tail(entries)
    /\ path' = entry_path(project_path, Head(entries).rel)
    /\ \E o \in Orders(patterns) :
        /\ order' = o
        /\ verdict' = should_ignore(path', o)
    /\ verdict' = FALSE
    /\ \/ Head(entries).fate \in {"metadata_error", "too_large"}
       \/ ~should_include(extension(path'), env.is_godot_project)
       \/ Head(entries).fate = "unreadable"
    /\ UNCHANGED <<pc, patterns, files, project_path, max_files, bin_vars,
                   fs, digest_result, git_result, main_vars>>

\* lib.rs 337-447: a file that is not ignored and is included: pushed with
\* its path relative to the root; the length is compared with max_files
\* after the push, and the loop is left for `Ok(files)` when it is reached
CollectPush ==
    /\ pc = "collect"
    /\ entries # <<>>
    /\ Head(entries).kind = "file"
    /\ entry' = Head(entries)
    /\ entries' = Tail(entries)
    /\ path' = entry_path(project_path, Head(entries).rel)
    /\ \E o \in Orders(patterns) :
        /\ order' = o
        /\ verdict' = should_ignore(path', o)
    /\ verdict' = FALSE
    /\ Head(entries).fate = "ok"
    /\ should_include(extension(path'), env.is_godot_project)
    /\ files' = Append(files, strip_prefix(path', project_path))
    /\ pc' = IF Len(files') >= max_files THEN "returned" ELSE "collect"
    /\ UNCHANGED <<patterns, project_path, max_files, bin_vars,
                   fs, digest_result, git_result, main_vars>>

\* lib.rs 328, 447: the walker is exhausted: Ok(files)
CollectReturn ==
    /\ pc = "collect"
    /\ entries = <<>>
    /\ pc' = "returned"
    /\ UNCHANGED <<path, patterns, order, verdict, entries, entry, files, project_path,
                   max_files, bin_vars, fs, digest_result, git_result, main_vars>>

NextCollect ==
    \/ CollectEntryError
    \/ CollectSkipDirectory
    \/ CollectIgnored
    \/ CollectSkipFile
    \/ CollectPush
    \/ CollectReturn

SpecCollect == InitCollect /\ [][NextCollect]_vars

---------------------------------------------------------------------------
(* Properties of the match engine *)

\* the CandidatePath of the call: the path as should_ignore reads it
path_str_of_call == normalize_path(path)

\* some /-delimited segment of p is .git
HasGitSegment(p) == \E i \in 1..Len(Split(p, SLASH)) : Split(p, SLASH)[i] = DOTGIT

\* C1: a path that is .git, or that has a segment equal to .git (leading,
\* middle or trailing), is excluded whatever the pattern set holds, the
\* empty set included.
C1_GitAlwaysExcluded ==
    (pc = "done" /\ (path_str_of_call = DOTGIT \/ HasGitSegment(path_str_of_call)))
        => verdict = TRUE

\* C2: order independence: the verdict returned for the order the set
\* happened to yield is the verdict of every other order of the same set.
C2_OrderIndependent ==
    pc = "done" => \A o \in Orders(patterns) : should_ignore(path, o) = verdict

\* C2 witness: a call that skipped its first pattern with `continue` and
\* returned true on its second one
C2_Witness ==
    /\ pc = "done"
    /\ Len(order) = 2
    /\ loop_body(path_str_of_call, order[1]) = "continue"
    /\ loop_body(path_str_of_call, order[2]) = "return_true"
    /\ verdict = TRUE

\* C3: monotonicity: a path kept under the set S' is kept under every
\* subset S of S', in every iteration order (so a path excluded under S stays
\* excluded when patterns are added).
C3_Monotone ==
    (pc = "done" /\ verdict = FALSE)
        => \A S \in SUBSET patterns : \A o \in Orders(S) : should_ignore(path, o) = FALSE

\* C3 witness: dist/app.js under {*.js, !dist/app.js}, the negated pattern
\* met first, is still excluded
C3_Witness ==
    /\ pc = "done"
    /\ path = <<"d", "i", "s", "t", "/", "a", "p", "p", ".", "j", "s">>
    /\ order = << <<"!", "d", "i", "s", "t", "/", "a", "p", "p", ".", "j", "s">>,
                  <<"*", ".", "j", "s">> >>
    /\ verdict = TRUE

\* C4: negation is inert: a set holding one !-prefixed pattern excludes no
\* path other than .git paths.
C4_NegationInert ==
    (/\ pc = "done"
     /\ \E q \in patterns : patterns = {q} /\ StartsWith(q, <<"!">>)
     /\ ~is_git_path(path_str_of_call))
        => verdict = FALSE

\* C4 witness: the path a under {!a} is kept
C4_Witness ==
    /\ pc = "done"
    /\ patterns = {<<"!", "a">>}
    /\ path = <<"a">>
    /\ verdict = FALSE

\* the directory-only rule of the specification for the pattern d/
DirectoryRule(p, d) ==
    \/ p = d
    \/ StartsWith(p, d \o SLASH)
    \/ Contains(p, SLASH \o d \o SLASH)

\* the call was made with the one pattern d/, d without *
IsPlainDirectoryCall(q) ==
    /\ pc = "done"
    /\ patterns = {q}
    /\ EndsWith(q, SLASH)
    /\ ~Contains(q, STAR)
    /\ ~is_git_path(path_str_of_call)

---------------------------------------------------------------------------
(* Properties of the rules of the pattern grammar *)

\* a Pattern of the specification: a trimmed line
IsTrimmed(q) == Trim(q) = q

\* the number of * in q
CountStar(q) == Len(Split(q, STAR)) - 1

\* the call was made with the one pattern q
IsSingleCall(q) == pc = "done" /\ patterns = {q}

\* p is not .git and does not contain /.git/
NotGitPath(p) == p # DOTGIT /\ ~Contains(p, SLASH_DOTGIT_SLASH)

\* the final /-delimited segment of p
LastSegment(p) == Last(Split(p, SLASH))

\* the pattern *suffix: one *, in front, no trailing /
IsStarSuffixPattern(q) ==
    /\ IsTrimmed(q)
    /\ StartsWith(q, STAR)
    /\ CountStar(q) = 1
    /\ ~EndsWith(q, SLASH)

\* the leading-wildcard rule of the specification
StarSuffixRule(p, suffix) ==
    /\ EndsWith(LastSegment(p), suffix)
    /\ (suffix = <<>> \/ Head(suffix) = "." \/ LastSegment(p) = suffix)

\* C11: leading-wildcard rule: for a pattern *suffix with exactly one * and no
\* trailing /, and a path that is not .git and does not contain /.git/, the
\* verdict is true iff the final segment of the path ends with suffix and
\* suffix is empty, starts with a dot, or is the whole segment.
C11_StarSuffixRule ==
    \A q \in Patterns :
        (IsSingleCall(q) /\ IsStarSuffixPattern(q) /\ NotGitPath(path_str_of_call))
            => (verdict = StarSuffixRule(path_str_of_call, Tail(q)))

\* C11 witness: *.js keeps file.jsx
C11_Witness ==
    /\ pc = "done"
    /\ patterns = {<<"*", ".", "j", "s">>}
    /\ path = <<"f", "i", "l", "e", ".", "j", "s", "x">>
    /\ verdict = FALSE

\* the pattern prefix/**, prefix without *
IsAnyDepthSuffixPattern(q) ==
    /\ IsTrimmed(q)
    /\ EndsWith(q, SLASH_STARSTAR)
    /\ ~Contains(SubSeq(q, 1, Len(q) - 3), STAR)

\* the any-depth suffix rule of the specification
AnyDepthSuffixRule(p, prefix) ==
    StartsWith(p, prefix \o SLASH) \/ Contains(p, SLASH \o prefix \o SLASH)

\* C12 as stated: for every pattern prefix/** with prefix free of *, and every
\* path without * that is not .git and does not contain /.git/, the verdict is
\* true iff the path starts with prefix/ or contains /prefix/.
C12_AnyDepthSuffixAnyPrefix ==
    \A q \in Patterns :
        (/\ IsSingleCall(q)
         /\ IsAnyDepthSuffixPattern(q)
         /\ ~Contains(path_str_of_call, STAR)
         /\ NotGitPath(path_str_of_call))
            => (verdict = AnyDepthSuffixRule(path_str_of_call, SubSeq(q, 1, Len(q) - 3)))

\* C12 amended: the same, for a pattern prefix/** that does not start with #
\* or with !.
C12_AnyDepthSuffix ==
    \A q \in Patterns :
        (/\ IsSingleCall(q)
         /\ IsAnyDepthSuffixPattern(q)
         /\ ~StartsWith(q, <<"#">>)
         /\ ~StartsWith(q, <<"!">>)
         /\ ~Contains(path_str_of_call, STAR)
         /\ NotGitPath(path_str_of_call))
            => (verdict = AnyDepthSuffixRule(path_str_of_call, SubSeq(q, 1, Len(q) - 3)))

\* C12 witness: build/** keeps builds/file.js
C12_Witness ==
    /\ pc = "done"
    /\ patterns = {<<"b", "u", "i", "l", "d", "/", "*", "*">>}
    /\ path = <<"b", "u", "i", "l", "d", "s", "/", "f", "i", "l", "e", ".", "j", "s">>
    /\ verdict = FALSE

\* C13 as stated: with **/*.md in the set a path whose file name ends with
\* .md is excluded, and with the set {**/*.md} alone a path that does not end
\* with .md and has no .git component is kept.
C13_AnyMdAnyPath ==
    /\ (pc = "done" /\ PAT_ANY_MD \in patterns /\ EndsWith(LastSegment(path_str_of_call), DOT_MD))
            => verdict = TRUE
    /\ (/\ IsSingleCall(PAT_ANY_MD)
        /\ ~EndsWith(path_str_of_call, DOT_MD)
        /\ path_str_of_call # DOTGIT
        /\ ~HasGitSegment(path_str_of_call))
            => verdict = FALSE

\* C13 amended: the same, the kept paths being those without *.
C13_AnyMd ==
    /\ (pc = "done" /\ PAT_ANY_MD \in patterns /\ EndsWith(LastSegment(path_str_of_call), DOT_MD))
            => verdict = TRUE
    /\ (/\ IsSingleCall(PAT_ANY_MD)
        /\ ~EndsWith(path_str_of_call, DOT_MD)
        /\ ~Contains(path_str_of_call, STAR)
        /\ path_str_of_call # DOTGIT
        /\ ~HasGitSegment(path_str_of_call))
            => verdict = FALSE

\* C13 witness: README.md at the root is excluded under {a/, **/*.md}, the
\* directory pattern met first
C13_Witness ==
    /\ pc = "done"
    /\ order = <<<<"a", "/">>, PAT_ANY_MD>>
    /\ path = <<"R", "E", "A", "D", "M", "E", ".", "m", "d">>
    /\ verdict = TRUE

\* C14: with the set {.git, **/*.js} every path whose file name ends in .js is
\* excluded, at any depth, and src/main.rs and docs/README.md are kept.
C14_AnyDepthJs ==
    (pc = "done" /\ patterns = {DOTGIT, <<"*", "*", "/", "*", ".", "j", "s">>})
        => /\ EndsWith(LastSegment(path_str_of_call), <<".", "j", "s">>) => verdict = TRUE
           /\ path_str_of_call \in {<<"s", "r", "c", "/", "m", "a", "i", "n", ".", "r", "s">>, <<"d", "o", "c", "s", "/", "R", "E", "A", "D", "M", "E", ".", "m", "d">>} => verdict = FALSE

\* the pattern t is a literal: no *, no trailing /, not a comment and not
\* negated
IsLiteralPattern(q) ==
    /\ IsTrimmed(q)
    /\ ~Contains(q, STAR)
    /\ ~EndsWith(q, SLASH)
    /\ ~StartsWith(q, <<"#">>)
    /\ ~StartsWith(q, <<"!">>)

\* the literal rule of the specification
LiteralRule(p, q) ==
    \/ p = q
    \/ EndsWith(p, SLASH \o q)
    \/ Contains(p, SLASH \o q \o SLASH)

\* C15 as stated: for every pattern t without *, without trailing /, that
\* does not start with # or !, and every path that is not .git and does not
\* contain /.git/, the verdict is true iff the path is t, ends with /t or
\* contains /t/.
C15_LiteralRuleAnyText ==
    \A q \in Patterns :
        (IsSingleCall(q) /\ IsLiteralPattern(q) /\ NotGitPath(path_str_of_call))
            => (verdict = LiteralRule(path_str_of_call, q))

\* C15 amended: the same, for a pattern t that is not empty.
C15_LiteralRule ==
    \A q \in Patterns :
        (IsSingleCall(q) /\ IsLiteralPattern(q) /\ q # <<>> /\ NotGitPath(path_str_of_call))
            => (verdict = LiteralRule(path_str_of_call, q))

\* C15 witness: README.md excludes src/lib/README.md
C15_Witness ==
    /\ pc = "done"
    /\ patterns = {<<"R", "E", "A", "D", "M", "E", ".", "m", "d">>}
    /\ path = <<"s", "r", "c", "/", "l", "i", "b", "/", "R", "E", "A", "D", "M", "E", ".", "m", "d">>
    /\ verdict = TRUE

\* some /-delimited segment of p equals q
HasSegment(p, q) == \E i \in 1..Len(Split(p, SLASH)) : Split(p, SLASH)[i] = q

\* C16: a literal pattern t (not empty, not a comment, not negated) excludes
\* every path one of whose /-delimited segments equals t, the first segment
\* of a relative path included.
C16_LiteralMatchesAnySegment ==
    \A q \in Patterns :
        (/\ IsSingleCall(q)
         /\ IsLiteralPattern(q)
         /\ q # <<>>
         /\ HasSegment(path_str_of_call, q))
            => verdict = TRUE

\* the pattern prefix*: one *, at the end, prefix not empty, not a comment and
\* not negated
IsStarPrefixPattern(q) ==
    /\ IsTrimmed(q)
    /\ CountStar(q) = 1
    /\ EndsWith(q, STAR)
    /\ Len(q) > 1
    /\ ~StartsWith(q, <<"#">>)
    /\ ~StartsWith(q, <<"!">>)

\* the trailing-wildcard rule of the specification
StarPrefixRule(p, prefix) ==
    \/ p = prefix
    \/ StartsWith(p, prefix \o SLASH)
    \/ Contains(p, SLASH \o prefix \o SLASH)

\* C17: trailing-wildcard rule: for a pattern prefix* with exactly one * the
\* verdict is true if the path is prefix, starts with prefix/ or contains
\* /prefix/, and false for every other path without a .git component.
C17_StarPrefixRule ==
    \A q \in Patterns :
        (IsSingleCall(q) /\ IsStarPrefixPattern(q))
            => LET prefix == SubSeq(q, 1, Len(q) - 1)
               IN /\ StarPrefixRule(path_str_of_call, prefix) => verdict = TRUE
                  /\ (/\ ~StarPrefixRule(path_str_of_call, prefix)
                      /\ path_str_of_call # DOTGIT
                      /\ ~HasGitSegment(path_str_of_call)) => verdict = FALSE

\* the pattern prefix*suffix: one *, both parts not empty, no trailing /, not
\* a comment and not negated
IsStarEmbeddedPattern(q) ==
    /\ IsTrimmed(q)
    /\ CountStar(q) = 1
    /\ ~StartsWith(q, STAR)
    /\ ~EndsWith(q, STAR)
    /\ ~EndsWith(q, SLASH)
    /\ ~StartsWith(q, <<"#">>)
    /\ ~StartsWith(q, <<"!">>)

\* C18: embedded-wildcard rule: for a pattern prefix*suffix and a path without
\* a .git component: when suffix starts with a dot the verdict is true iff the
\* file name contains prefix+suffix (a match in a directory part alone does
\* not exclude), otherwise iff the path contains prefix+suffix.
C18_StarEmbeddedRule ==
    \A q \in Patterns :
        (/\ IsSingleCall(q)
         /\ IsStarEmbeddedPattern(q)
         /\ path_str_of_call # DOTGIT
         /\ ~HasGitSegment(path_str_of_call))
            => LET parts == Split(q, STAR)
               IN verdict = IF Head(parts[2]) = "."
                            THEN Contains(LastSegment(path_str_of_call), parts[1] \o parts[2])
                            ELSE Contains(path_str_of_call, parts[1] \o parts[2])

\* some non-empty /-delimited segment of p starts with pre and ends with suf
HasSegmentLike(p, pre, suf) ==
    \E i \in 1..Len(Split(p, SLASH)) :
        LET seg == Split(p, SLASH)[i]
        IN seg # <<>> /\ StartsWith(seg, pre) /\ EndsWith(seg, suf)

\* the pattern name/ whose name holds exactly one *
IsWildcardDirectoryPattern(q) ==
    /\ IsTrimmed(q)
    /\ EndsWith(q, SLASH)
    /\ CountStar(SubSeq(q, 1, Len(q) - 1)) = 1
    /\ ~StartsWith(q, <<"#">>)
    /\ ~StartsWith(q, <<"!">>)

\* C19: directory-with-wildcard rule: for a pattern pre*suf/ the verdict is
\* true whenever some non-empty segment of the path starts with pre and ends
\* with suf.
C19_WildcardDirectoryRule ==
    \A q \in Patterns :
        (IsSingleCall(q) /\ IsWildcardDirectoryPattern(q))
            => LET parts == Split(SubSeq(q, 1, Len(q) - 1), STAR)
               IN HasSegmentLike(path_str_of_call, parts[1], parts[2]) => verdict = TRUE

\* the pattern **/pre*suf/: one * in the directory name
IsAnyDepthWildcardDirectoryPattern(q) ==
    /\ IsTrimmed(q)
    /\ StartsWith(q, STARSTAR_SLASH)
    /\ EndsWith(q, SLASH)
    /\ Len(q) > 4
    /\ CountStar(SubSeq(q, 4, Len(q) - 1)) = 1

\* C20: for a pattern **/pre*suf/ and a path without * and without a .git
\* component, the verdict is true iff some non-empty segment of the path
\* starts with pre and ends with suf.
C20_AnyDepthWildcardDirectory ==
    \A q \in Patterns :
        (/\ IsSingleCall(q)
         /\ IsAnyDepthWildcardDirectoryPattern(q)
         /\ ~Contains(path_str_of_call, STAR)
         /\ path_str_of_call # DOTGIT
         /\ ~HasGitSegment(path_str_of_call))
            => LET parts == Split(SubSeq(q, 4, Len(q) - 1), STAR)
               IN verdict = HasSegmentLike(path_str_of_call, parts[1], parts[2])

\* C20 witness: **/test*/ excludes src/tests/test_main.rs
C20_Witness ==
    /\ pc = "done"
    /\ patterns = {<<"*", "*", "/", "t", "e", "s", "t", "*", "/">>}
    /\ path = <<"s", "r", "c", "/", "t", "e", "s", "t", "s", "/", "t", "e", "s", "t", "_", "m", "a", "i", "n", ".", "r", "s">>
    /\ verdict = TRUE

\* the directory name of a pattern that ends with /: the text before the
\* closing /, a leading **/ left out
DirectoryName(q) ==
    IF StartsWith(q, STARSTAR_SLASH) THEN SubSeq(q, 4, Len(q) - 1) ELSE SubSeq(q, 1, Len(q) - 1)

\* the pattern d/ or **/d/, d a single name without *
IsBoundedDirectoryPattern(q) ==
    /\ IsTrimmed(q)
    /\ EndsWith(q, SLASH)
    /\ DirectoryName(q) # <<>>
    /\ ~Contains(DirectoryName(q), STAR)
    /\ ~Contains(DirectoryName(q), SLASH)

\* C21: a pattern ending in / matches only at directory-segment boundaries:
\* for the pattern d/ or **/d/ and a path without a .git component, a true
\* verdict implies that some complete segment of the path equals d.
C21_DirectoryBoundaries ==
    \A q \in Patterns :
        (/\ IsSingleCall(q)
         /\ IsBoundedDirectoryPattern(q)
         /\ path_str_of_call # DOTGIT
         /\ ~HasGitSegment(path_str_of_call)
         /\ verdict = TRUE)
            => HasSegment(path_str_of_call, DirectoryName(q))

\* the pattern prefix/**/suffix: one /**/, no other *, not led by **/ and not
\* closed by /**
IsMiddleDoubleStarPattern(q) ==
    /\ IsTrimmed(q)
    /\ Len(Split(q, SLASH_STARSTAR_SLASH)) = 2
    /\ CountStar(q) = 2
    /\ ~StartsWith(q, STARSTAR_SLASH)
    /\ ~EndsWith(q, SLASH_STARSTAR)

\* the middle double-wildcard rule of the specification
MiddleDoubleStarRule(p, prefix, suffix) ==
    /\ (prefix = <<>> \/ StartsWith(p, prefix) \/ Contains(p, SLASH \o prefix))
    /\ (suffix = <<>> \/ EndsWith(p, suffix) \/ Contains(p, suffix \o SLASH))

\* C22 as stated: for every pattern prefix/**/suffix and every path without *
\* and without a .git component, the verdict is true iff the prefix part and
\* the suffix part of the rule both hold.
C22_MiddleDoubleStarAnyPrefix ==
    \A q \in Patterns :
        (/\ IsSingleCall(q)
         /\ IsMiddleDoubleStarPattern(q)
         /\ ~Contains(path_str_of_call, STAR)
         /\ path_str_of_call # DOTGIT
         /\ ~HasGitSegment(path_str_of_call))
            => LET parts == Split(q, SLASH_STARSTAR_SLASH)
               IN verdict = MiddleDoubleStarRule(path_str_of_call, parts[1], parts[2])

\* C22 amended: the same, for a pattern that does not start with # or with !.
C22_MiddleDoubleStar ==
    \A q \in Patterns :
        (/\ IsSingleCall(q)
         /\ IsMiddleDoubleStarPattern(q)
         /\ ~StartsWith(q, <<"#">>)
         /\ ~StartsWith(q, <<"!">>)
         /\ ~Contains(path_str_of_call, STAR)
         /\ path_str_of_call # DOTGIT
         /\ ~HasGitSegment(path_str_of_call))
            => LET parts == Split(q, SLASH_STARSTAR_SLASH)
               IN verdict = MiddleDoubleStarRule(path_str_of_call, parts[1], parts[2])

\* C22 witness: src/**/config.json keeps src/config.js
C22_Witness ==
    /\ pc = "done"
    /\ patterns = {<<"s", "r", "c", "/", "*", "*", "/", "c", "o", "n", "f", "i", "g", ".", "j", "s", "o", "n">>}
    /\ path = <<"s", "r", "c", "/", "c", "o", "n", "f", "i", "g", ".", "j", "s">>
    /\ verdict = FALSE

\* C23: with *.test.* in the set every path that contains .test. is excluded,
\* and with the set {*.test.*} alone a path without .test. and without a .git
\* component is kept.
C23_TestGlob ==
    /\ (pc = "done" /\ PAT_TEST_GLOB \in patterns /\ Contains(path_str_of_call, DOT_TEST_DOT))
            => verdict = TRUE
    /\ (/\ IsSingleCall(PAT_TEST_GLOB)
        /\ ~Contains(path_str_of_call, DOT_TEST_DOT)
        /\ path_str_of_call # DOTGIT
        /\ ~HasGitSegment(path_str_of_call))
            => verdict = FALSE

\* C23 witness: a.test.b/a, with .test. in a directory name only, is excluded
\* under {!a, *.test.*}, the negated pattern met first
C23_Witness ==
    /\ pc = "done"
    /\ order = <<<<"!", "a">>, PAT_TEST_GLOB>>
    /\ path = <<"a", ".", "t", "e", "s", "t", ".", "b", "/", "a">>
    /\ verdict = TRUE

\* the call was made on a path without * and without a .git component
IsPlainPathCall ==
    /\ pc = "done"
    /\ ~Contains(path_str_of_call, STAR)
    /\ path_str_of_call # DOTGIT
    /\ ~HasGitSegment(path_str_of_call)

\* some segment of p other than the final one starts with test
HasTestDirectory(p) ==
    \E i \in 1..(Len(Split(p, SLASH)) - 1) : StartsWith(Split(p, SLASH)[i], TEST)

\* C26: for the set {**/test*/**} and a path without * and without a .git
\* component, the verdict is true iff some segment other than the final one
\* starts with test.
C26_TestStarDirShortcut ==
    (IsSingleCall(PAT_TEST_STAR_DIR) /\ IsPlainPathCall)
        => (verdict = HasTestDirectory(path_str_of_call))

\* C26 witness: test_file.js, whose only segment starts with test, is kept
C26_Witness ==
    /\ pc = "done"
    /\ patterns = {PAT_TEST_STAR_DIR}
    /\ path = <<"t", "e", "s", "t", "_", "f", "i", "l", "e", ".", "j", "s">>
    /\ verdict = FALSE

\* C27: for the set {**/test/**} and a path without * and without a .git
\* component, the verdict is true iff the path starts with test/ or contains
\* /test/.
C27_TestDirShortcut ==
    (IsSingleCall(PAT_TEST_DIR) /\ IsPlainPathCall)
        => (verdict = (StartsWith(path_str_of_call, TEST_SLASH)
                        \/ Contains(path_str_of_call, SLASH_TEST_SLASH)))

\* C27 witness: deeply/nested/test/script.js is excluded
C27_Witness ==
    /\ pc = "done"
    /\ patterns = {PAT_TEST_DIR}
    /\ path = <<"d", "e", "e", "p", "l", "y", "/", "n", "e", "s", "t", "e", "d", "/", "t", "e", "s", "t", "/", "s", "c", "r", "i", "p", "t", ".", "j", "s">>
    /\ verdict = TRUE

\* the pattern **/X/**, X a name without * and / other than test
IsAnyDepthNamePattern(q) ==
    /\ IsTrimmed(q)
    /\ Len(q) >= 6
    /\ StartsWith(q, STARSTAR_SLASH)
    /\ EndsWith(q, SLASH_STARSTAR)
    /\ ~Contains(SubSeq(q, 4, Len(q) - 3), STAR)
    /\ ~Contains(SubSeq(q, 4, Len(q) - 3), SLASH)
    /\ SubSeq(q, 4, Len(q) - 3) # TEST

\* C30: for a name X other than test, the pattern **/X/** excludes no path
\* without * and without a .git component, not even a path inside a directory
\* named X.
C30_AnyDepthNameExcludesNothing ==
    \A q \in Patterns :
        (IsSingleCall(q) /\ IsAnyDepthNamePattern(q) /\ IsPlainPathCall)
            => verdict = FALSE

\* C30, second half: **/test/** does exclude the analogous paths
C30_TestIsTheException ==
    (/\ IsSingleCall(PAT_TEST_DIR)
     /\ path_str_of_call \in {<<"t", "e", "s", "t", "/", "f", "i", "l", "e", ".", "j", "s">>, <<"s", "r", "c", "/", "t", "e", "s", "t", "/", "f", "i", "l", "e", ".", "r", "s">>})
        => verdict = TRUE

\* C30: a pattern **/X/** with X other than test excludes no path, even a
\* path inside a directory named X, whereas **/test/** excludes the
\* analogous paths.
C30_AnyDepthName ==
    C30_AnyDepthNameExcludesNothing /\ C30_TestIsTheException

\* C30 witness: **/node_modules/** keeps src/node_modules/a.js
C30_Witness ==
    /\ pc = "done"
    /\ patterns = {<<"*", "*", "/", "n", "o", "d", "e", "_", "m", "o", "d", "u", "l", "e", "s", "/", "*", "*">>}
    /\ path = <<"s", "r", "c", "/", "n", "o", "d", "e", "_", "m", "o", "d", "u", "l", "e", "s", "/", "a", ".", "j", "s">>
    /\ verdict = FALSE

\* the patterns that have a dedicated shortcut in front of the rules
ShortcutPatterns ==
    {PAT_TEST_DIR, PAT_TEST_STAR_DIR, PAT_ANY_MD, PAT_NODE_MODULES, PAT_BUILD, PAT_TEST_GLOB}

\* a pattern the rules of the table are applied to: a trimmed line that is
\* not empty, not a comment, not negated and has no shortcut
IsRulePattern(q) ==
    /\ IsTrimmed(q)
    /\ q # <<>>
    /\ ~StartsWith(q, <<"#">>)
    /\ ~StartsWith(q, <<"!">>)
    /\ q \notin ShortcutPatterns

\* the verdict of the first rule of the table whose shape q fits, no later
\* rule consulted; a pattern that fits no shape matches nothing
FirstRuleVerdict(p, q) ==
    IF StartsWith(q, STARSTAR_SLASH) THEN match_leading_double_star(p, q)
    ELSE IF EndsWith(q, SLASH_STARSTAR) THEN match_trailing_double_star(p, q)
    ELSE IF Contains(q, SLASH_STARSTAR_SLASH) THEN match_middle_double_star(p, q)
    ELSE IF EndsWith(q, SLASH) THEN match_directory(p, q)
    ELSE IF Contains(q, STAR) /\ ~Contains(q, STARSTAR) THEN match_single_star(p, q)
    ELSE IF ~Contains(q, STAR) THEN match_literal(p, q)
    ELSE FALSE

\* the verdict when the rules 1 to 3 fall through: true iff one of the rules
\* 1 to 3 that q fits matches, or the one rule of 4 to 9 that q reaches matches
FallThroughVerdict(p, q) ==
    \/ StartsWith(q, STARSTAR_SLASH) /\ match_leading_double_star(p, q)
    \/ EndsWith(q, SLASH_STARSTAR) /\ match_trailing_double_star(p, q)
    \/ Contains(q, SLASH_STARSTAR_SLASH) /\ match_middle_double_star(p, q)
    \/ IF EndsWith(q, SLASH) THEN match_directory(p, q)
       ELSE IF Contains(q, STAR) /\ ~Contains(q, STARSTAR) THEN match_single_star(p, q)
       ELSE match_literal(p, q)

---------------------------------------------------------------------------
(* Properties of the two should_ignore functions *)

\* C28: the library's should_ignore and the binary's should_ignore return
\* the same verdict for every path and every pattern set.
C28_SameVerdict ==
    pc = "compared" => main_verdict = verdict

---------------------------------------------------------------------------
(* Properties of collect_relevant_files *)

\* C24: collect_relevant_files never returns more than max_files entries,
\* for every max_files >= 0, 0 included.
C24_AtMostMaxFiles ==
    pc = "returned" => Len(files) <= max_files

\* C29: the verdict should_ignore gives for a visited file is the verdict of
\* its path relative to the traversal root: the directories of the root
\* itself do not influence it.
C29_RootDoesNotInfluenceVerdict ==
    (pc \in {"collect", "returned"} /\ entry.kind = "file" /\ verdict \in BOOLEAN)
        => verdict = should_ignore(entry.rel, order)

---------------------------------------------------------------------------
(* Properties of the loaders and of their union *)

\* content[i..j] is what trim leaves of a line of content: it lies on one line,
\* starts and ends with a character that is not whitespace, and only
\* whitespace stands between it and the ends of its line
IsTrimmedLine(content, i, j) ==
    /\ i <= j
    /\ \A k \in i..j : content[k] # "\n"
    /\ ~IsWhitespace(content[i])
    /\ ~IsWhitespace(content[j])
    /\ \A k \in 1..(i - 1) :
        (\A m \in k..(i - 1) : content[m] # "\n") => IsWhitespace(content[k])
    /\ \A k \in (j + 1)..Len(content) :
        (\A m \in (j + 1)..k : content[m] # "\n") => IsWhitespace(content[k])

\* the set the specification gives for a content: .git, and every trimmed
\* line that is not empty and does not start with #
ExpectedPatterns(content) ==
    {DOTGIT} \cup
    {SubSeq(content, i, j) : <<i, j>> \in
        {ij \in (1..Len(content)) \X (1..Len(content)) :
            IsTrimmedLine(content, ij[1], ij[2]) /\ content[ij[1]] # "#"}}

\* C5: the two sources combine additively: under the union of the loaders'
\* outputs A and B a path is excluded iff it is excluded under A or under B.
C5_SourcesAdditive ==
    (pc = "done" /\ digest_result.tag = "Ok" /\ git_result.tag = "Ok")
        => \A oa \in Orders(git_result.value) : \A ob \in Orders(digest_result.value) :
              verdict = (should_ignore(path, oa) \/ should_ignore(path, ob))

\* C5 witness: .gitignore with build/ and .digestignore with docs/ exclude
\* docs/readme.md, which the first file alone keeps
C5_Witness ==
    /\ pc = "done"
    /\ git_result.tag = "Ok"
    /\ digest_result.tag = "Ok"
    /\ git_result.value = {DOTGIT, PAT_BUILD}
    /\ digest_result.value = {DOTGIT, <<"d", "o", "c", "s", "/">>}
    /\ path = <<"d", "o", "c", "s", "/", "r", "e", "a", "d", "m", "e", ".", "m", "d">>
    /\ verdict = TRUE
    /\ \A oa \in Orders(git_result.value) : ~should_ignore(path, oa)

\* C6: for an existing (readable) ignore file each loader returns exactly
\* .git and the trimmed lines that are neither empty nor comments.
C6_LoaderResult ==
    /\ (pc # "load_digestignore" /\ fs.digestignore.kind = "file")
        => /\ digest_result.tag = "Ok"
           /\ digest_result.value = ExpectedPatterns(fs.digestignore.content)
    /\ (pc \notin {"load_digestignore", "load_gitignore"} /\ fs.gitignore.kind = "file")
        => /\ git_result.tag = "Ok"
           /\ git_result.value = ExpectedPatterns(fs.gitignore.content)

\* C6 witness: a comment, a blank line, `node_modules/ ` with a trailing
\* space and *.log load as {.git, node_modules/, *.log}
C6_Witness ==
    /\ pc = "walk"
    /\ fs.digestignore.kind = "file"
    /\ Contains(fs.digestignore.content, PAT_NODE_MODULES \o <<" ", "\n">>)
    /\ digest_result.tag = "Ok"
    /\ digest_result.value = {DOTGIT, PAT_NODE_MODULES, <<"*", ".", "l", "o", "g">>}
    /\ git_result.tag = "Ok"
    /\ git_result.value = {DOTGIT}

---------------------------------------------------------------------------
(* Properties of the pattern set main builds *)

\* main is past both loaders, --no-ignore not given
SourcesTried ==
    /\ pc \in {"defaults", "cli_patterns", "collect", "collecting"}
    /\ ~cli.no_ignore

\* main wrote the line that announces the built-in defaults
UsedDefaults ==
    \E i \in 1..Len(log) :
        log[i] = "No ignore files found or used. Using default ignore patterns."

\* what the sources that loaded contributed
LoadedPatterns ==
    (IF digest_result.tag = "Ok" THEN digest_result.value ELSE {})
        \cup (IF git_result.tag = "Ok" THEN git_result.value ELSE {})

\* C7: a missing ignore file makes its loader return an error; main takes it
\* as a source that adds nothing, does not abort, and still tries the other
\* source, whose patterns are added.
C7_MissingSourceAddsNothing ==
    /\ (fs.digestignore.kind = "missing" => check_for_digestignore(fs).tag = "Err")
    /\ (fs.gitignore.kind = "missing" => check_for_gitignore(fs).tag = "Err")
    /\ (pc = "aborted" => digest_result.tag = "pending" /\ git_result.tag = "pending")
    /\ (pc = "gitignore" /\ fs.digestignore.kind = "missing" /\ ~cli.no_digestignore)
        => /\ digest_result.tag = "Err"
           /\ ~using_digestignore
           /\ patterns = {}
           /\ ENABLED (MainGitignoreLoaded \/ MainGitignoreError \/ MainGitignoreSkipped)
    /\ (SourcesTried /\ fs.digestignore.kind = "missing" /\ ~cli.no_digestignore)
        => /\ digest_result.tag = "Err"
           /\ (fs.gitignore.kind = "file" /\ ~cli.no_gitignore)
                => (git_result.tag = "Ok" /\ git_result.value \subseteq patterns)
    /\ (SourcesTried /\ fs.gitignore.kind = "missing" /\ ~cli.no_gitignore)
        => /\ git_result.tag = "Err"
           /\ ~using_gitignore
           /\ (fs.digestignore.kind = "file" /\ ~cli.no_digestignore)
                => (digest_result.tag = "Ok" /\ digest_result.value \subseteq patterns)
    /\ (pc = "defaults" /\ ~cli.no_ignore) => patterns = LoadedPatterns

\* C7 witness: .digestignore is missing, .gitignore holds patterns, and main
\* reaches the call of collect_relevant_files with them
C7_Witness ==
    /\ pc = "collect"
    /\ ~cli.no_ignore /\ ~cli.no_digestignore /\ ~cli.no_gitignore
    /\ fs.digestignore.kind = "missing"
    /\ digest_result.tag = "Err"
    /\ git_result.tag = "Ok"
    /\ PAT_BUILD \in git_result.value
    /\ PAT_BUILD \in patterns

\* C8: whatever the flags, the ignore files, the language, the Godot
\* detection and the --ignore-pattern arguments, the set handed to
\* collect_relevant_files holds .git.
C8_SentinelHandedOver ==
    pc \in {"collect", "collecting"} => DOTGIT \in patterns

\* C8 witness: a Godot C# project without ignore files, !.git given on the
\* command line
C8_Witness ==
    /\ pc = "collect"
    /\ UsedDefaults
    /\ env.is_godot_project
    /\ env.main_language = "C#"
    /\ cli.ignore_patterns = << <<"!", ".", "g", "i", "t">> >>
    /\ DOTGIT \in patterns

\* C9: without --no-ignore the built-in defaults are used iff no ignore file
\* was loaded (a file loads iff it is present, readable and not disabled);
\* once a file loaded, even an empty one, the set holds the loaded patterns
\* and no default.
C9_DefaultsIffNothingLoaded ==
    (/\ pc \in {"cli_patterns", "collect", "collecting"}
     /\ ~cli.no_ignore)
        => /\ UsedDefaults <=> (~using_digestignore /\ ~using_gitignore)
           /\ using_digestignore <=> (fs.digestignore.kind = "file" /\ ~cli.no_digestignore)
           /\ using_gitignore <=> (fs.gitignore.kind = "file" /\ ~cli.no_gitignore)
           /\ using_digestignore <=> digest_result.tag = "Ok"
           /\ using_gitignore <=> git_result.tag = "Ok"
           /\ pc = "cli_patterns" =>
                patterns = IF using_digestignore \/ using_gitignore
                           THEN LoadedPatterns
                           ELSE build_ignore_patterns(env.main_language, env.is_godot_project)

\* C9 witness: an empty .gitignore loaded, no .digestignore: the set is
\* {.git} and the defaults were not used
C9_Witness ==
    /\ pc = "cli_patterns"
    /\ ~cli.no_ignore
    /\ fs.gitignore = File(<<>>)
    /\ using_gitignore
    /\ ~using_digestignore
    /\ ~UsedDefaults
    /\ patterns = {DOTGIT}

=============================================================================
